---- MODULE Spec2Model ----
(***************************************************************************)
(* wurt83ow/timetracker: the time-tracking ledger (user_tasks) as the      *)
(* request handlers and the Persistence Gateway (BDKeeper) drive it.       *)
(*                                                                         *)
(* Time is counted in ticks; a day has TicksPerDay ticks.  Instants are    *)
(* ticks since a UTC midnight (tick 0, the start of day 0), a timezone is  *)
(* its UTC offset in ticks.  The users were registered on day 0 and the    *)
(* clock starts at the UTC midnight that begins day 1.                     *)
(* Every request runs on its own goroutine (a member of Procs);            *)
(* a handler is split at its database statements, which Postgres runs      *)
(* under READ COMMITTED: a statement sees the rows committed before it.    *)
(*                                                                         *)
(* Spec is the ledger, SpecSummary the summary over any table, SpecRepo    *)
(* the Repository (MemoryStorage) over the tables Users and tasks,         *)
(* SpecInfo the refresh of user data over any table Users, SpecGetUsers    *)
(* the filtered and paginated listing of the mirror, SpecCtl the routes    *)
(* of BaseController behind the authorization middleware, one request at   *)
(* a time.  The ledger keeps of a mirrored user only the fields it reads.  *)
(* SpecTasks is the tasks mirror alone, SpecUpdateTask concurrent          *)
(* UpdateTask calls on one task, SpecPipeline the enrichment service       *)
(* (ApiService.UpdateUsers and the worker Pool) and SpecPipelineFair the   *)
(* same under fair scheduling.                                             *)
(***************************************************************************)
EXTENDS Integers, Sequences, FiniteSets, TLC

\* ---------------------------------------------------------------- bounds
NumProcs == 2
NumTasks == 1
\* the number of ticks the clock may advance
Horizon == 3
MaxRows == 2
\* the rows and tasks of the tables a summary is computed over
MaxSummaryRows == 2
NumSummaryTasks == 2
\* the ids the sequences of Users and of tasks may hand out
MaxUserID == 2
MaxTaskID == 1
\* the users of the mirror GetUsers pages over
MaxListed == 3
\* the width of a Go int, scaled down: ints are IntWidth bits wide
IntWidth == 4
\* the capacity of Pool.collector (1000), the workers of the Pool (CONCURRENCY)
\* and the users one GetNonUpdateUsers returns (LIMIT 100), scaled down
QueueCap == 2
NumWorkers == 2
MaxBatch == 2

\* ------------------------------------------------------ program constants
\* 24 * time.Hour, in ticks (one tick = 8 hours)
TicksPerDay == 3
\* the day time.Parse gives a value parsed without a date (January 1, year 0)
ParseDay == -8
\* time.Time{} (January 1, year 1), as an instant
ZeroTime == -16
\* the configured default end of the working day, as a time of day
DefaultEndTod == 1

Procs == 1..NumProcs
Tasks == 1..NumTasks
Users == {1}
TZOffsets == {-1, 0, 1}
NULL == -1
Start0 == TicksPerDay
LastDay == (Start0 + Horizon + 1) \div TicksPerDay
Days == 0..LastDay
\* the date ranges a summary is asked for: day 1, and every day
Ranges == {<<1, 1>>, <<0, LastDay>>}

VARIABLES
    user_tasks,   \* the committed rows of table user_tasks; the index is the SERIAL id
    audit,        \* history: for each row, the local day on which its Start was issued
    users,        \* MemoryStorage.users, the users mirror: id -> user, or a nil map
    now,          \* time.Now()
    proc,         \* each request goroutine: its position and its locals
    tasks,        \* MemoryStorage.tasks, the tasks mirror: id -> task, or a nil map
    umx,          \* MemoryStorage.umx: [w: the goroutine holding it locked, or 0,
                  \*                     r: the goroutines holding it read-locked]
    omx,          \* MemoryStorage.omx, likewise
    db_users,     \* table Users: id -> row
    users_id_seq, \* the last id the sequence of Users handed out
    db_tasks,     \* table tasks: id -> row
    tasks_id_seq, \* the last id the sequence of tasks handed out
    call,         \* each goroutine inside a MemoryStorage method: position and locals
    accepted,     \* history: per user id, the <<field, value>> pairs ever committed
    collector,    \* Pool.collector, the buffered channel of tasks: the users queued
    workers,      \* each worker goroutine of the Pool: its position and its task
    updater,      \* the goroutine running ApiService.UpdateUsers: its position,
                  \* the users CreateUsersTask still ranges over, len(result)
    cancelled,    \* the context of UpdateUsers is cancelled (ctx.Done() is closed)
    wg,           \* the counter of ApiService.wg
    stopper       \* the goroutine calling ApiService.Stop: its position

repoVars == <<tasks, umx, omx, db_users, users_id_seq, db_tasks, tasks_id_seq,
              call, accepted>>

poolVars == <<collector, workers, updater, cancelled, wg, stopper>>

vars == <<user_tasks, audit, users, now, proc, repoVars, poolVars>>

\* ---------------------------------------------------- the enrichment service
Workers == 1..NumWorkers
\* a worker in its select, the UpdateUsers goroutine before Start
IdleWorker == [pc |-> "select", user |-> 0]
NoUpdater == [pc |-> "none", users |-> <<>>, result |-> 0, err |-> "nil"]

\* NewPool, RunBackground and NewApiService have run: the queue is empty, the
\* workers wait for tasks, UpdateUsers is not started
NoService ==
    /\ collector = <<>>
    /\ workers = [w \in Workers |-> IdleWorker]
    /\ updater = NoUpdater
    /\ cancelled = FALSE
    /\ wg = 0
    /\ stopper = "idle"

\* ---------------------------------------------------------------- time
\* t.Truncate(d): t rounded down to a multiple of d since the zero time
Truncate(t, d) == t - (t % d)

\* the calendar date pgx sends for a time.Time bound to a DATE parameter:
\* the Year/Month/Day of the value in its own location
DateOf(t, off) == (t + off) \div TicksPerDay

\* the calendar day of instant t in the zone with offset off
LocalDay(t, off) == (t + off) \div TicksPerDay

\* startOfDay := time.Now().In(loc).Truncate(24 * time.Hour), sent as event_date
EventDateOf(t, off) == DateOf(Truncate(t, TicksPerDay), off)

\* parseDefaultEndTime(loc): the configured time of day on the day the user
\* was registered (day 0), as an instant
ParseDefaultEndTime(off) == DefaultEndTod - off

\* the user Register and AddUser build: the server's zone, and the configured
\* end of the working day
NewUser(off) == [Timezone |-> off, DefaultEndTime |-> ParseDefaultEndTime(off)]

\* the TIME WITH TIME ZONE value stored for instant t of a zone: its time of day
TimeTz(t, off) == (t + off) % TicksPerDay

\* ---------------------------------------------------------------- rows
Row(u, k, d, s, e) ==
    [user_id |-> u, task_id |-> k, event_date |-> d, start_time |-> s, end_time |-> e]

\* SELECT id FROM user_tasks WHERE user_id = $1 AND task_id = $2
\*   AND event_date = $3 AND end_time IS NULL
SelectOpen_NotNull(u, k, d) ==
    {i \in DOMAIN user_tasks :
        /\ user_tasks[i].user_id = u
        /\ user_tasks[i].task_id = k
        /\ user_tasks[i].event_date = d
        /\ user_tasks[i].end_time # NULL}
SelectOpen(u, k, d) ==
    {i \in DOMAIN user_tasks :
        /\ user_tasks[i].user_id = u
        /\ user_tasks[i].task_id = k
        /\ user_tasks[i].event_date = d
        /\ user_tasks[i].end_time = NULL}

\* ---------------------------------------------------------------- processes
IdleProc ==
    [pc |-> "idle", op |-> "none", UserID |-> 0, TaskID |-> 0, EventDate |-> 0,
     day |-> 0, time |-> 0, id |-> 0, tx |-> "none", err |-> "none",
     from |-> 0, to |-> 0, summary |-> <<>>, taskSummaries |-> <<>>]

Set(p, r) == proc' = [proc EXCEPT ![p] = r]

\* what is left of a call once it has returned: the operation, the error
\* returned and how its transaction ended
Done(p, e, t) == Set(p, [IdleProc EXCEPT !.pc = "done", !.op = proc[p].op,
                                         !.err = e, !.tx = t])

\* rows a Start in flight may still insert
Starting == {p \in Procs : proc[p].op = "start" /\ proc[p].pc # "done"}

\* ------------------------------------------------------ Repository: data
\* a nil map: what NewMemoryStorage keeps when LoadUsers or LoadTasks failed
NIL == [i \in {NULL} |-> "nil"]

\* the natural keys (passportSerie, passportNumber) in use, and those the
\* requests to the Repository name
NaturalKeys == {<<1, 1>>, <<1, 2>>}
RepoKeys == {<<1, 1>>}

\* models.User, with the fields the Repository and the gateway work on; Name and
\* Address go with Surname
User(uuid, serie, number, surname, timezone) ==
    [UUID |-> uuid, PassportSerie |-> serie, PassportNumber |-> number,
     Surname |-> surname, Timezone |-> timezone]

\* models.User{}
ZeroUser == User(0, 0, 0, "", "")

\* a row of table Users
UserRow(id, serie, number, surname, timezone, checked) ==
    [id |-> id, passportSerie |-> serie, passportNumber |-> number,
     surname |-> surname, timezone |-> timezone, last_checked_at |-> checked]

\* models.Task and a row of table tasks
Task(id, name) == [ID |-> id, Name |-> name]
TaskRow(id, name) == [id |-> id, name |-> name]

\* the keys of a Go map, for range and lookup: a nil map reads as empty
Keys(m) == IF m = NIL THEN {} ELSE DOMAIN m
\* m[k] = v
Put(m, k, v) == [i \in DOMAIN m \cup {k} |-> IF i = k THEN v ELSE m[i]]
\* delete(m, k), and DELETE ... WHERE id = k
Drop(m, k) == [i \in DOMAIN m \ {k} |-> m[i]]

\* BDKeeper.LoadUsers and LoadTasks: every row, under its id
LoadUsers(db) ==
    [id \in DOMAIN db |-> User(db[id].id, db[id].passportSerie, db[id].passportNumber,
                               db[id].surname, db[id].timezone)]
LoadTasks(db) == [id \in DOMAIN db |-> Task(db[id].id, db[id].name)]

\* the field values a row of Users holds
FieldsOf(row) == {<<"Surname", row.surname>>, <<"Timezone", row.timezone>>}

\* a sync.RWMutex nobody holds
Unlocked == [w |-> 0, r |-> {}]

\* a goroutine outside the Repository
IdleCall ==
    [pc |-> "idle", op |-> "none", arg |-> 0, id |-> 0, err |-> "none", out |-> 0,
     wrote |-> FALSE, durable |-> FALSE]

\* the Repository at rest over the users and tasks of the ledger
LedgerRepo ==
    /\ db_users = [u \in Users |-> UserRow(u, 1, u, "a", "UTC", NULL)]
    /\ users_id_seq = Cardinality(Users)
    /\ db_tasks = [k \in Tasks |-> TaskRow(k, "n")]
    /\ tasks_id_seq = Cardinality(Tasks)
    /\ tasks = LoadTasks(db_tasks)
    /\ umx = Unlocked
    /\ omx = Unlocked
    /\ call = [p \in Procs |-> IdleCall]
    /\ accepted = [u \in Users |-> FieldsOf(db_users[u])]

Init ==
    /\ user_tasks = <<>>
    /\ audit = <<>>
    /\ \E z \in [Users -> TZOffsets] :
          users = [u \in Users |-> NewUser(z[u])]
    /\ now = Start0
    /\ proc = [p \in Procs |-> IdleProc]
    /\ LedgerRepo
    /\ NoService

\* the clock advances
Tick ==
    /\ now < Start0 + Horizon
    /\ now' = now + 1
    /\ UNCHANGED <<user_tasks, audit, users, proc, repoVars, poolVars>>

\* ------------------------------------------------- BaseController.StartTaskTracking
\* the handler up to its call of storage.StartTaskTracking: the user is read from
\* the mirror and the entry is prepared
CtlStartTaskTracking(p, u, k) ==
    /\ proc[p].pc = "idle"
    /\ Len(user_tasks) + Cardinality(Starting) < MaxRows
    /\ Set(p, [IdleProc EXCEPT !.pc = "start_check", !.op = "start",
                               !.UserID = u, !.TaskID = k,
                               !.EventDate = EventDateOf(now, users[u].Timezone),
                               !.day = LocalDay(now, users[u].Timezone)])
    /\ UNCHANGED <<user_tasks, audit, users, now, repoVars, poolVars>>

\* ------------------------------------------------------ BDKeeper.StartTaskTracking
\* tx, err := bd.pool.Begin(ctx) fails: return err
StartBeginFails(p) ==
    /\ proc[p].pc = "start_check"
    /\ Done(p, "ErrDB", "none")
    /\ UNCHANGED <<user_tasks, audit, users, now, repoVars, poolVars>>

\* startTime := time.Now().In(location), Begin, and the check query.
\* It finds no active entry (pgx.ErrNoRows, err is reset): the INSERT follows,
\* and its row stays private to the transaction until the commit; return nil.
\* It finds one: return fmt.Errorf("task tracking is already in progress ...");
\* the local err is nil there, so the deferred function commits the
\* transaction, which has written nothing
StartCheck(p) ==
    /\ proc[p].pc = "start_check"
    /\ IF SelectOpen(proc[p].UserID, proc[p].TaskID, proc[p].EventDate) = {}
       THEN Set(p, [proc[p] EXCEPT !.pc = "start_commit",
                        !.time = TimeTz(now, users[proc[p].UserID].Timezone)])
       ELSE Done(p, "ErrAlreadyTracking", "committed")
    /\ UNCHANGED <<user_tasks, audit, users, now, repoVars, poolVars>>

\* the check query fails: return err, the deferred function rolls back
StartCheckFails(p) ==
    /\ proc[p].pc = "start_check"
    /\ Done(p, "ErrDB", "rolledback")
    /\ UNCHANGED <<user_tasks, audit, users, now, repoVars, poolVars>>

\* the INSERT fails: return err, the deferred function rolls back
StartInsertFails(p) ==
    /\ proc[p].pc = "start_check"
    /\ SelectOpen(proc[p].UserID, proc[p].TaskID, proc[p].EventDate) = {}
    /\ Done(p, "ErrDB", "rolledback")
    /\ UNCHANGED <<user_tasks, audit, users, now, repoVars, poolVars>>

\* the deferred function after return nil: err = tx.Commit(ctx).  The result
\* of the function is unnamed, so the return statement has fixed it as nil
StartCommit(p) ==
    /\ proc[p].pc = "start_commit"
    /\ user_tasks' = Append(user_tasks,
           Row(proc[p].UserID, proc[p].TaskID, proc[p].EventDate,
               proc[p].time, NULL))
    /\ audit' = Append(audit, proc[p].day)
    /\ Done(p, "nil", "committed")
    /\ UNCHANGED <<users, now, repoVars, poolVars>>

\* the commit fails: the error is logged and assigned to the local err only
StartCommitFails(p) ==
    /\ proc[p].pc = "start_commit"
    /\ Done(p, "nil", "rolledback")
    /\ UNCHANGED <<user_tasks, audit, users, now, repoVars, poolVars>>

\* -------------------------------------------------- BaseController.StopTaskTracking
CtlStopTaskTracking(p, u, k) ==
    /\ proc[p].pc = "idle"
    /\ Set(p, [IdleProc EXCEPT !.pc = "stop_check", !.op = "stop",
                               !.UserID = u, !.TaskID = k,
                               !.EventDate = EventDateOf(now, users[u].Timezone),
                               !.day = LocalDay(now, users[u].Timezone)])
    /\ UNCHANGED <<user_tasks, audit, users, now, repoVars, poolVars>>

\* ------------------------------------------------------- BDKeeper.StopTaskTracking
StopBeginFails(p) ==
    /\ proc[p].pc = "stop_check"
    /\ Done(p, "ErrDB", "none")
    /\ UNCHANGED <<user_tasks, audit, users, now, repoVars, poolVars>>

\* endTime := time.Now().In(location), Begin, the check query and the loop over
\* its rows: id is the id of the last row scanned (the query has no ORDER BY).
\* Nothing found: return fmt.Errorf("no active task tracking found ..."); the
\* local err is nil there, so the deferred function commits the transaction,
\* which has written nothing
StopCheck(p) ==
    /\ proc[p].pc = "stop_check"
    /\ LET found == SelectOpen(proc[p].UserID, proc[p].TaskID, proc[p].EventDate)
       IN IF found = {}
          THEN Done(p, "ErrNotTracking", "committed")
          ELSE \E i \in found :
                   Set(p, [proc[p] EXCEPT !.pc = "stop_update", !.id = i,
                        !.time = TimeTz(now, users[proc[p].UserID].Timezone)])
    /\ UNCHANGED <<user_tasks, audit, users, now, repoVars, poolVars>>

\* the check query or rows.Scan fails: return err, the deferred function rolls back
StopCheckFails(p) ==
    /\ proc[p].pc = "stop_check"
    /\ Done(p, "ErrDB", "rolledback")
    /\ UNCHANGED <<user_tasks, audit, users, now, repoVars, poolVars>>

\* the row lock UPDATE takes: a transaction that has updated the row and not
\* yet ended holds it
RowLocked(p, i) ==
    \E q \in Procs \ {p} : proc[q].pc = "stop_commit" /\ proc[q].id = i

\* UPDATE user_tasks SET end_time = $1 WHERE id = $2: waits for the row lock,
\* then writes the row whatever end_time it has by then; return nil
StopUpdate(p) ==
    /\ proc[p].pc = "stop_update"
    /\ ~RowLocked(p, proc[p].id)
    /\ Set(p, [proc[p] EXCEPT !.pc = "stop_commit"])
    /\ UNCHANGED <<user_tasks, audit, users, now, repoVars, poolVars>>

StopUpdateFails(p) ==
    /\ proc[p].pc = "stop_update"
    /\ Done(p, "ErrDB", "rolledback")
    /\ UNCHANGED <<user_tasks, audit, users, now, repoVars, poolVars>>

\* the deferred function after return nil: err = tx.Commit(ctx); the result of
\* the function is unnamed and stays nil
StopCommit(p) ==
    /\ proc[p].pc = "stop_commit"
    /\ user_tasks' = [user_tasks EXCEPT ![proc[p].id].end_time = proc[p].time]
    /\ Done(p, "nil", "committed")
    /\ UNCHANGED <<audit, users, now, repoVars, poolVars>>

StopCommitFails(p) ==
    /\ proc[p].pc = "stop_commit"
    /\ Done(p, "nil", "rolledback")
    /\ UNCHANGED <<user_tasks, audit, users, now, repoVars, poolVars>>

\* ----------------------------------------------------- BDKeeper.GetUserTaskSummary
\* SELECT task_id, start_time, end_time FROM user_tasks
\*   WHERE user_id = $1 AND event_date BETWEEN $2 AND $3
SelectRange(u, s, e) ==
    {i \in DOMAIN user_tasks :
        /\ user_tasks[i].user_id = u
        /\ s <= user_tasks[i].event_date
        /\ user_tasks[i].event_date <= e}

\* rows.Scan(&taskID, &startTimeStr, &endTimeStr) with both times Go strings:
\* pgx refuses to scan NULL into a string
ScanFails(i) == user_tasks[i].start_time = NULL \/ user_tasks[i].end_time = NULL

\* time.Parse("15:04:05.999999-07", s): the time of day on January 1 of year 0
\* in the zone the value names, as an instant
ParseTimeTz(tod, off) == ParseDay * TicksPerDay + tod - off

\* the end the loop body takes for a row and the duration it adds
EntryEnd(i, off, defaultEndTime) ==
    IF user_tasks[i].end_time # NULL
    THEN ParseTimeTz(user_tasks[i].end_time, off)
    ELSE IF defaultEndTime # ZeroTime
         THEN defaultEndTime
         ELSE ParseTimeTz(TicksPerDay - 1, off)

EntryDuration(i, off, defaultEndTime) ==
    EntryEnd(i, off, defaultEndTime) - ParseTimeTz(user_tasks[i].start_time, off)

RECURSIVE SumDurations(_, _, _)
SumDurations(S, off, defaultEndTime) ==
    IF S = {} THEN 0
    ELSE LET i == CHOOSE x \in S : TRUE
         IN EntryDuration(i, off, defaultEndTime)
            + SumDurations(S \ {i}, off, defaultEndTime)

\* taskTimeMap after the loop
TaskTimeMap(S, off, defaultEndTime) ==
    [k \in {user_tasks[i].task_id : i \in S} |->
        SumDurations({i \in S : user_tasks[i].task_id = k}, off, defaultEndTime)]

\* the hours of one tick
HoursPerTick == 24 \div TicksPerDay

\* strconv of a natural number: its decimal digits as character codes
RECURSIVE Digits(_)
Digits(n) == IF n < 10 THEN <<48 + n>> ELSE Digits(n \div 10) \o <<48 + (n % 10)>>

\* time.Duration.String() of a duration of d ticks (whole hours): "0s",
\* "8h0m0s", "-16h0m0s", as character codes
DurationString(d) ==
    IF d = 0 THEN <<48, 115>>
    ELSE (IF d < 0 THEN <<45>> ELSE <<>>)
         \o Digits(HoursPerTick * (IF d < 0 THEN -d ELSE d))
         \o <<104, 48, 109, 48, 115>>

\* a > b on Go strings: bytewise lexicographic order
RECURSIVE StringGreater(_, _)
StringGreater(a, b) ==
    IF a = <<>> THEN FALSE
    ELSE IF b = <<>> THEN TRUE
    ELSE IF Head(a) # Head(b) THEN Head(a) > Head(b)
    ELSE StringGreater(Tail(a), Tail(b))

\* models.TaskSummary
TaskSummary(k, totalTime) == [TaskID |-> k, TotalTime |-> DurationString(totalTime)]

\* the slices sort.Slice may leave for taskTimeMap m: one TaskSummary per key,
\* no element's TotalTime greater (as a string) than that of an element before
\* it; the order among equal strings is the map's iteration order
SortedSummaries(m) ==
    {s \in [1..Cardinality(DOMAIN m) -> {TaskSummary(k, m[k]) : k \in DOMAIN m}] :
        /\ \A i, j \in DOMAIN s : i # j => s[i].TaskID # s[j].TaskID
        /\ \A i, j \in DOMAIN s :
              i < j => ~StringGreater(s[j].TotalTime, s[i].TotalTime)}

\* the handler and the gateway call: one statement on the pool, no transaction;
\* a failed rows.Scan ends the call with its error
GetUserTaskSummary(p, u, s, e) ==
    /\ proc[p].pc = "idle"
    /\ LET S == SelectRange(u, s, e)
           r == [IdleProc EXCEPT !.pc = "done", !.op = "summary", !.UserID = u,
                                 !.from = s, !.to = e]
       IN IF \E i \in S : ScanFails(i)
          THEN Set(p, [r EXCEPT !.err = "ErrScan"])
          ELSE LET m == TaskTimeMap(S, users[u].Timezone, users[u].DefaultEndTime)
               IN \E sorted \in SortedSummaries(m) :
                     Set(p, [r EXCEPT !.err = "nil", !.summary = m,
                                      !.taskSummaries = sorted])
    /\ UNCHANGED <<user_tasks, audit, users, now, repoVars, poolVars>>

GetUserTaskSummaryFails(p, u, s, e) ==
    /\ proc[p].pc = "idle"
    /\ Set(p, [IdleProc EXCEPT !.pc = "done", !.op = "summary", !.UserID = u,
                               !.from = s, !.to = e, !.err = "ErrDB"])
    /\ UNCHANGED <<user_tasks, audit, users, now, repoVars, poolVars>>

\* the handler has answered; the goroutine serves the next request
Return(p) ==
    /\ proc[p].pc = "done"
    /\ Set(p, IdleProc)
    /\ UNCHANGED <<user_tasks, audit, users, now, repoVars, poolVars>>

Next ==
    \/ Tick
    \/ \E p \in Procs, u \in Users, k \in Tasks :
        \/ CtlStartTaskTracking(p, u, k)
        \/ CtlStopTaskTracking(p, u, k)
    \/ \E p \in Procs, u \in Users, r \in Ranges :
        \/ GetUserTaskSummary(p, u, r[1], r[2])
        \/ GetUserTaskSummaryFails(p, u, r[1], r[2])
    \/ \E p \in Procs :
        \/ StartBeginFails(p) \/ StartCheck(p) \/ StartCheckFails(p)
        \/ StartInsertFails(p)
        \/ StartCommit(p) \/ StartCommitFails(p)
        \/ StopBeginFails(p) \/ StopCheck(p) \/ StopCheckFails(p)
        \/ StopUpdate(p) \/ StopUpdateFails(p)
        \/ StopCommit(p) \/ StopCommitFails(p)
        \/ Return(p)

Spec == Init /\ [][Next]_vars

\* ------------------------------------------- GetUserTaskSummary over any table
\* the rows user_tasks may hold: of the user asked about or of another one,
\* closed or open
SummaryRows ==
    {Row(u, k, d, s, e) : u \in {1, 2}, k \in 1..NumSummaryTasks, d \in {0, 1},
                          s \in 0..(TicksPerDay - 1),
                          e \in (0..(TicksPerDay - 1)) \cup {NULL}}

InitSummary ==
    /\ \E n \in 0..MaxSummaryRows : user_tasks \in [1..n -> SummaryRows]
    /\ audit = [i \in DOMAIN user_tasks |-> user_tasks[i].event_date]
    /\ \E z \in [Users -> TZOffsets] :
          users = [u \in Users |-> NewUser(z[u])]
    /\ now = Start0
    /\ proc = [p \in Procs |-> IdleProc]
    /\ LedgerRepo
    /\ NoService

NextSummary ==
    \/ \E p \in Procs, u \in Users, r \in Ranges :
        \/ GetUserTaskSummary(p, u, r[1], r[2])
        \/ GetUserTaskSummaryFails(p, u, r[1], r[2])
    \/ \E p \in Procs : Return(p)

SpecSummary == InitSummary /\ [][NextSummary]_vars

\* ======================================================= Repository (MemoryStorage)
ledgerVars == <<user_tasks, audit, now, proc>>

\* a runtime fatal error (concurrent map access) ends the process
Alive == \A q \in Procs : call[q].pc # "fatal"
At(p, l) == Alive /\ call[p].pc = l

\* mx.Lock() and mx.RLock() can be taken
CanLock(mx) == mx.w = 0 /\ mx.r = {}
CanRLock(mx) == mx.w = 0

SetCall(p, r) == call' = [call EXCEPT ![p] = r]
\* the call of method op with argument a begins
Begin(op, a) == [IdleCall EXCEPT !.op = op, !.arg = a]
\* a call returns err e and value out
Ret(c, e, out) ==
    [IdleCall EXCEPT !.pc = "done", !.op = c.op, !.err = e, !.out = out,
                     !.wrote = c.wrote, !.durable = c.durable]
\* a call ends in a panic, which net/http recovers; deferred unlocks have run
Panic(c) == [Ret(c, "panic", 0) EXCEPT !.pc = "panic"]

\* the ids under which map m holds a user with natural key k
Match(m, k) ==
    {id \in Keys(m) : m[id].PassportSerie = k[1] /\ m[id].PassportNumber = k[2]}
\* the ids of the rows of Users with natural key k
MatchRow(k) ==
    {id \in DOMAIN db_users : /\ db_users[id].passportSerie = k[1]
                              /\ db_users[id].passportNumber = k[2]}

\* request bodies: a registration, a partial update sent to /api/user/{id}, a
\* full update naming the passport
NewUsers == {User(0, k[1], k[2], "a", "UTC") : k \in RepoKeys}
UpdateBodies == {User(id, 0, 0, s, "") : id \in 1..MaxUserID, s \in {"", "b"}}
KeyedBodies == {User(0, k[1], k[2], "b", "UTC") : k \in RepoKeys}

\* ---------------------------------------------- MemoryStorage.InsertUser
\* s.umx.Lock(); id, err := s.keeper.SaveUser(ctx, user).  INSERT ... ON CONFLICT
\* DO NOTHING RETURNING id: on a conflict there is no row and Scan returns
\* pgx.ErrNoRows
InsertUser(p, u) ==
    /\ At(p, "idle")
    /\ CanLock(umx)
    /\ IF MatchRow(<<u.PassportSerie, u.PassportNumber>>) # {}
       THEN /\ SetCall(p, Ret(Begin("InsertUser", u), "ErrNoRows", 0))
            /\ UNCHANGED <<umx, db_users, users_id_seq, accepted>>
       ELSE /\ users_id_seq < MaxUserID
            /\ LET id == users_id_seq + 1
                   row == UserRow(id, u.PassportSerie, u.PassportNumber,
                                  u.Surname, u.Timezone, NULL)
               IN /\ db_users' = Put(db_users, id, row)
                  /\ users_id_seq' = id
                  /\ accepted' = Put(accepted, id, FieldsOf(row))
                  /\ SetCall(p, [Begin("InsertUser", u) EXCEPT
                                    !.pc = "InsertUser_store", !.id = id,
                                    !.durable = TRUE])
            /\ umx' = [umx EXCEPT !.w = p]
    /\ UNCHANGED <<ledgerVars, poolVars, users, tasks, omx, db_tasks, tasks_id_seq>>

\* SaveUser fails: return err
InsertUserFails(p, u) ==
    /\ At(p, "idle")
    /\ CanLock(umx)
    /\ SetCall(p, Ret(Begin("InsertUser", u), "ErrDB", 0))
    /\ UNCHANGED <<ledgerVars, poolVars, users, tasks, umx, omx, db_users, users_id_seq,
                   db_tasks, tasks_id_seq, accepted>>

\* an InsertUser that stores the user without its timezone
InsertUserStore_NoTimezone(p) ==
    /\ At(p, "InsertUser_store")
    /\ IF users = NIL
       THEN /\ SetCall(p, Panic(call[p]))
            /\ UNCHANGED users
       ELSE /\ users' = Put(users, call[p].id, [call[p].arg EXCEPT !.Timezone = ""])
            /\ SetCall(p, Ret([call[p] EXCEPT !.wrote = TRUE], "nil", 0))
    /\ umx' = Unlocked
    /\ UNCHANGED <<ledgerVars, poolVars, tasks, omx, db_users, users_id_seq, db_tasks,
                   tasks_id_seq, accepted>>

\* s.users[id] = user; return nil.  The user is stored as it was passed, its
\* UUID not set; writing to a nil map panics
InsertUserStore(p) ==
    /\ At(p, "InsertUser_store")
    /\ IF users = NIL
       THEN /\ SetCall(p, Panic(call[p]))
            /\ UNCHANGED users
       ELSE /\ users' = Put(users, call[p].id, call[p].arg)
            /\ SetCall(p, Ret([call[p] EXCEPT !.wrote = TRUE], "nil", 0))
    /\ umx' = Unlocked
    /\ UNCHANGED <<ledgerVars, poolVars, tasks, omx, db_users, users_id_seq, db_tasks,
                   tasks_id_seq, accepted>>

\* ---------------------------------------------- MemoryStorage.UpdateUser
\* the row BDKeeper.UpdateUser leaves: only the fields that are not zero are SET
UpdatedRow(row, u) ==
    [row EXCEPT !.surname = IF u.Surname # "" THEN u.Surname ELSE @,
                !.timezone = IF u.Timezone # "" THEN u.Timezone ELSE @]

\* s.umx.Lock(); the user must be in the mirror (ErrNotFound); then
\* s.keeper.UpdateUser: UPDATE Users SET <the non-zero fields> WHERE id = $1.
\* With every field zero the statement is cut to "UPDATE Users SE WHERE id = $1"
\* and fails; a row that is missing is no error
UpdateUser(p, u) ==
    /\ At(p, "idle")
    /\ CanLock(umx)
    /\ IF u.UUID \notin Keys(users)
       THEN /\ SetCall(p, Ret(Begin("UpdateUser", u), "ErrNotFound", 0))
            /\ UNCHANGED <<umx, db_users, accepted>>
       ELSE IF u.Surname = "" /\ u.Timezone = ""
       THEN /\ SetCall(p, Ret(Begin("UpdateUser", u), "ErrDB", 0))
            /\ UNCHANGED <<umx, db_users, accepted>>
       ELSE /\ IF u.UUID \in DOMAIN db_users
               THEN LET row == UpdatedRow(db_users[u.UUID], u)
                    IN /\ db_users' = [db_users EXCEPT ![u.UUID] = row]
                       /\ accepted' = [accepted EXCEPT
                                          ![u.UUID] = @ \cup FieldsOf(row)]
               ELSE UNCHANGED <<db_users, accepted>>
            /\ umx' = [umx EXCEPT !.w = p]
            /\ SetCall(p, [Begin("UpdateUser", u) EXCEPT
                              !.pc = "UpdateUser_store", !.durable = TRUE])
    /\ UNCHANGED <<ledgerVars, poolVars, users, tasks, omx, users_id_seq, db_tasks, tasks_id_seq>>

\* keeper.UpdateUser fails: return err
UpdateUserFails(p, u) ==
    /\ At(p, "idle")
    /\ CanLock(umx)
    /\ u.UUID \in Keys(users)
    /\ SetCall(p, Ret(Begin("UpdateUser", u), "ErrDB", 0))
    /\ UNCHANGED <<ledgerVars, poolVars, users, tasks, umx, omx, db_users, users_id_seq,
                   db_tasks, tasks_id_seq, accepted>>

\* s.users[user.UUID] = user; return nil
UpdateUserStore(p) ==
    /\ At(p, "UpdateUser_store")
    /\ users' = Put(users, call[p].arg.UUID, call[p].arg)
    /\ SetCall(p, Ret([call[p] EXCEPT !.wrote = TRUE], "nil", 0))
    /\ umx' = Unlocked
    /\ UNCHANGED <<ledgerVars, poolVars, tasks, omx, db_users, users_id_seq, db_tasks,
                   tasks_id_seq, accepted>>

\* ------------------- MemoryStorage.UpdateUser of internal/storage/storage.go
\* The repository holds a second definition of the method, which finds the
\* user by its passport and writes the mirror before it calls the gateway:
\* s.umx.Lock(); the user must be in the mirror; s.users[key] = user
UpdateUserKeyed(p, u) ==
    /\ At(p, "idle")
    /\ CanLock(umx)
    /\ LET found == Match(users, <<u.PassportSerie, u.PassportNumber>>)
       IN IF found = {}
          THEN /\ SetCall(p, Ret(Begin("UpdateUserKeyed", u), "ErrNotFound", 0))
               /\ UNCHANGED <<users, umx>>
          ELSE \E id \in found :
                 /\ users' = Put(users, id, u)
                 /\ umx' = [umx EXCEPT !.w = p]
                 /\ SetCall(p, [Begin("UpdateUserKeyed", u) EXCEPT
                                   !.pc = "UpdateUserKeyed_keeper", !.id = id,
                                   !.wrote = TRUE])
    /\ UNCHANGED <<ledgerVars, poolVars, tasks, omx, db_users, users_id_seq, db_tasks,
                   tasks_id_seq, accepted>>

\* s.keeper.UpdateUser(ctx, user): UPDATE Users SET surname = $3, ...,
\* last_checked_at = $10 WHERE passportSerie = $1 AND passportNumber = $2;
\* return nil
UpdateUserKeyedKeeper(p) ==
    /\ At(p, "UpdateUserKeyed_keeper")
    /\ LET u == call[p].arg
           hit == MatchRow(<<u.PassportSerie, u.PassportNumber>>)
           new(id) == [db_users[id] EXCEPT !.surname = u.Surname,
                                           !.timezone = u.Timezone,
                                           !.last_checked_at = ZeroTime]
       IN /\ db_users' = [id \in DOMAIN db_users |->
                             IF id \in hit THEN new(id) ELSE db_users[id]]
          /\ accepted' = [id \in DOMAIN accepted |->
                             IF id \in hit THEN accepted[id] \cup FieldsOf(new(id))
                             ELSE accepted[id]]
    /\ SetCall(p, Ret([call[p] EXCEPT !.durable = TRUE], "nil", 0))
    /\ umx' = Unlocked
    /\ UNCHANGED <<ledgerVars, poolVars, users, tasks, omx, users_id_seq, db_tasks, tasks_id_seq>>

\* the gateway fails: return err; the mirror keeps what was written
UpdateUserKeyedKeeperFails(p) ==
    /\ At(p, "UpdateUserKeyed_keeper")
    /\ SetCall(p, Ret(call[p], "ErrDB", 0))
    /\ umx' = Unlocked
    /\ UNCHANGED <<ledgerVars, poolVars, users, tasks, omx, db_users, users_id_seq, db_tasks,
                   tasks_id_seq, accepted>>

\* ---------------------------------------------- MemoryStorage.DeleteUser
\* s.umx.Lock(); the id must be in the mirror (ErrNotFound);
\* s.keeper.DeleteUser: DELETE FROM Users WHERE id = $1
DeleteUser(p, id) ==
    /\ At(p, "idle")
    /\ CanLock(umx)
    /\ IF id \notin Keys(users)
       THEN /\ SetCall(p, Ret(Begin("DeleteUser", id), "ErrNotFound", 0))
            /\ UNCHANGED <<umx, db_users>>
       ELSE /\ db_users' = Drop(db_users, id)
            /\ umx' = [umx EXCEPT !.w = p]
            /\ SetCall(p, [Begin("DeleteUser", id) EXCEPT
                              !.pc = "DeleteUser_store", !.durable = TRUE])
    /\ UNCHANGED <<ledgerVars, poolVars, users, tasks, omx, users_id_seq, db_tasks,
                   tasks_id_seq, accepted>>

DeleteUserFails(p, id) ==
    /\ At(p, "idle")
    /\ CanLock(umx)
    /\ id \in Keys(users)
    /\ SetCall(p, Ret(Begin("DeleteUser", id), "ErrDB", 0))
    /\ UNCHANGED <<ledgerVars, poolVars, users, tasks, umx, omx, db_users, users_id_seq,
                   db_tasks, tasks_id_seq, accepted>>

\* delete(s.users, id); return nil
DeleteUserStore(p) ==
    /\ At(p, "DeleteUser_store")
    /\ users' = Drop(users, call[p].arg)
    /\ SetCall(p, Ret([call[p] EXCEPT !.wrote = TRUE], "nil", 0))
    /\ umx' = Unlocked
    /\ UNCHANGED <<ledgerVars, poolVars, tasks, omx, db_users, users_id_seq, db_tasks,
                   tasks_id_seq, accepted>>

\* ------------------------------------------- MemoryStorage.UpdateUsersInfo
\* USER_UPDATE_INTERVAL, in ticks
UpdateInterval == 1
\* an UPDATE without the condition on last_checked_at
Stale_Always(checked, thresholdTime) == TRUE
\* Users.last_checked_at IS NULL OR Users.last_checked_at <= $6
Stale(checked, thresholdTime) == checked = NULL \/ checked <= thresholdTime

\* the batches the refresh worker may pass: the external data ("c") of some users
Batches == (SUBSET NaturalKeys) \ {{}}
RepoBatches == (SUBSET RepoKeys) \ {{}}

\* the row of Users the batch UPDATE leaves in place of row
InfoRow(row, batch, thresholdTime) ==
    IF /\ <<row.passportSerie, row.passportNumber>> \in batch
       /\ Stale(row.last_checked_at, thresholdTime)
    THEN [row EXCEPT !.surname = "c", !.last_checked_at = now]
    ELSE row

\* err := s.keeper.UpdateUsersInfo(ctx, result), no lock held: one transaction,
\* thresholdTime := now - interval, the UPDATE, the commit
UpdateUsersInfo(p, batch) ==
    /\ At(p, "idle")
    /\ LET new == [id \in DOMAIN db_users |->
                     InfoRow(db_users[id], batch, now - UpdateInterval)]
       IN /\ db_users' = new
          /\ accepted' = [id \in DOMAIN accepted |->
                             IF id \in DOMAIN new
                             THEN accepted[id] \cup FieldsOf(new[id])
                             ELSE accepted[id]]
    /\ SetCall(p, [Begin("UpdateUsersInfo", batch) EXCEPT
                      !.pc = "UpdateUsersInfo_store", !.durable = TRUE])
    /\ UNCHANGED <<ledgerVars, poolVars, users, tasks, umx, omx, users_id_seq, db_tasks,
                   tasks_id_seq>>

\* the gateway fails (the interval, Begin, Exec or Commit): return err
UpdateUsersInfoFails(p, batch) ==
    /\ At(p, "idle")
    /\ SetCall(p, Ret(Begin("UpdateUsersInfo", batch), "ErrDB", 0))
    /\ UNCHANGED <<ledgerVars, poolVars, users, tasks, umx, omx, db_users, users_id_seq,
                   db_tasks, tasks_id_seq, accepted>>

\* one turn of the loop over result: the first mirror user with the passport
\* gives id = user.UUID; user := s.users[id] (the zero User when the key is
\* not in the map) gets the surname and is put back under id
InfoOne(m, k) ==
    IF Match(m, k) = {} THEN {m}
    ELSE {LET id == m[i].UUID
              user == IF id \in DOMAIN m THEN m[id] ELSE ZeroUser
          IN Put(m, id, [user EXCEPT !.Surname = "c"]) : i \in Match(m, k)}

RECURSIVE InfoAll(_, _)
InfoAll(M, batch) ==
    IF batch = {} THEN M
    ELSE LET k == CHOOSE x \in batch : TRUE
         IN InfoAll(UNION {InfoOne(m, k) : m \in M}, batch \ {k})

\* s.umx.Lock(); the loop; return nil.  Ranging over a nil map finds nobody
UpdateUsersInfoStore(p) ==
    /\ At(p, "UpdateUsersInfo_store")
    /\ CanLock(umx)
    /\ \E m \in InfoAll({users}, call[p].arg) :
          /\ users' = m
          /\ SetCall(p, Ret([call[p] EXCEPT !.wrote = (m # users)], "nil", 0))
    /\ UNCHANGED <<ledgerVars, poolVars, tasks, umx, omx, db_users, users_id_seq, db_tasks,
                   tasks_id_seq, accepted>>

\* ------------------------------------------------- MemoryStorage.GetUser
\* the goroutines that are reading or writing the users map under a read lock
Accessing == {q \in Procs : call[q].pc \in {"GetUser_range", "GetUser_store"}}

\* s.umx.RLock()
GetUser(p, k) ==
    /\ At(p, "idle")
    /\ CanRLock(umx)
    /\ umx' = [umx EXCEPT !.r = @ \cup {p}]
    /\ SetCall(p, [Begin("GetUser", k) EXCEPT !.pc = "GetUser_range"])
    /\ UNCHANGED <<ledgerVars, poolVars, users, tasks, omx, db_users, users_id_seq, db_tasks,
                   tasks_id_seq, accepted>>

\* for _, user := range s.users: the first user with the passport is returned
GetUserRange(p) ==
    /\ At(p, "GetUser_range")
    /\ LET found == Match(users, call[p].arg)
       IN IF found # {}
          THEN /\ \E id \in found : SetCall(p, Ret(call[p], "nil", users[id]))
               /\ umx' = [umx EXCEPT !.r = @ \ {p}]
          ELSE /\ SetCall(p, [call[p] EXCEPT !.pc = "GetUser_keeper"])
               /\ UNCHANGED umx
    /\ UNCHANGED <<ledgerVars, poolVars, users, tasks, omx, db_users, users_id_seq, db_tasks,
                   tasks_id_seq, accepted>>

\* user, err := s.keeper.GetUser(...): the row, or User{} and nil when there is
\* none; user.UUID == 0 gives fmt.Errorf("user not found")
GetUserKeeper(p) ==
    /\ At(p, "GetUser_keeper")
    /\ LET hit == MatchRow(call[p].arg)
       IN IF hit = {}
          THEN /\ SetCall(p, Ret(call[p], "user not found", ZeroUser))
               /\ umx' = [umx EXCEPT !.r = @ \ {p}]
          ELSE /\ \E id \in hit :
                    SetCall(p, [call[p] EXCEPT !.pc = "GetUser_store", !.id = id,
                                               !.out = LoadUsers(db_users)[id]])
               /\ UNCHANGED umx
    /\ UNCHANGED <<ledgerVars, poolVars, users, tasks, omx, db_users, users_id_seq, db_tasks,
                   tasks_id_seq, accepted>>

GetUserKeeperFails(p) ==
    /\ At(p, "GetUser_keeper")
    /\ SetCall(p, Ret(call[p], "ErrDB", ZeroUser))
    /\ umx' = [umx EXCEPT !.r = @ \ {p}]
    /\ UNCHANGED <<ledgerVars, poolVars, users, tasks, omx, db_users, users_id_seq, db_tasks,
                   tasks_id_seq, accepted>>

\* s.users[user.UUID] = user, under the read lock; return user, nil.  A nil
\* map panics.  While another goroutine ranges over the map or writes it, the
\* write is a data race: it goes through or the runtime stops the process
\* ("fatal error: concurrent map ...")
GetUserStore(p) ==
    /\ At(p, "GetUser_store")
    /\ \/ /\ users = NIL
          /\ SetCall(p, Panic(call[p]))
          /\ UNCHANGED users
       \/ /\ users # NIL
          /\ users' = Put(users, call[p].out.UUID, call[p].out)
          /\ SetCall(p, Ret([call[p] EXCEPT !.wrote = TRUE], "nil", call[p].out))
       \/ /\ users # NIL
          /\ Accessing \ {p} # {}
          /\ SetCall(p, [call[p] EXCEPT !.pc = "fatal", !.err = "fatal"])
          /\ UNCHANGED users
    /\ umx' = [umx EXCEPT !.r = @ \ {p}]
    /\ UNCHANGED <<ledgerVars, poolVars, tasks, omx, db_users, users_id_seq, db_tasks,
                   tasks_id_seq, accepted>>

\* what a GetUser(k) that runs alone returns over mirror m and table db, the
\* gateway answering: the mirror's user, else the row's (a nil mirror panics)
GetUserAlone(m, db, k) ==
    LET hit == {id \in DOMAIN db : /\ db[id].passportSerie = k[1]
                                   /\ db[id].passportNumber = k[2]}
    IN IF Match(m, k) # {}
       THEN {[user |-> m[id], err |-> "nil"] : id \in Match(m, k)}
       ELSE IF hit = {}
       THEN {[user |-> ZeroUser, err |-> "user not found"]}
       ELSE IF m = NIL
       THEN {[user |-> ZeroUser, err |-> "panic"]}
       ELSE {[user |-> LoadUsers(db)[id], err |-> "nil"] : id \in hit}

\* MemoryStorage.GetUserByID on map m: the user and the error
GetUserByID(m, id) ==
    IF id \in Keys(m) THEN [user |-> m[id], err |-> "nil"]
    ELSE [user |-> ZeroUser, err |-> "value with such key doesn't exist"]

\* ------------------------------- MemoryStorage.InsertTask, UpdateTask, DeleteTask
NewTasks == {Task(0, "n")}
TaskBodies == {Task(id, "m") : id \in 1..MaxTaskID}

\* s.omx.Lock(); the ID must not be in the mirror (ErrConflict);
\* taskID, err := s.keeper.SaveTask(ctx, task)
InsertTask(p, t) ==
    /\ At(p, "idle")
    /\ CanLock(omx)
    /\ IF t.ID \in Keys(tasks)
       THEN /\ SetCall(p, Ret(Begin("InsertTask", t), "ErrConflict", 0))
            /\ UNCHANGED <<omx, db_tasks, tasks_id_seq>>
       ELSE /\ tasks_id_seq < MaxTaskID
            /\ LET id == tasks_id_seq + 1
               IN /\ db_tasks' = Put(db_tasks, id, TaskRow(id, t.Name))
                  /\ tasks_id_seq' = id
                  /\ SetCall(p, [Begin("InsertTask", t) EXCEPT
                                    !.pc = "InsertTask_store", !.id = id,
                                    !.durable = TRUE])
            /\ omx' = [omx EXCEPT !.w = p]
    /\ UNCHANGED <<ledgerVars, poolVars, users, tasks, umx, db_users, users_id_seq, accepted>>

InsertTaskFails(p, t) ==
    /\ At(p, "idle")
    /\ CanLock(omx)
    /\ t.ID \notin Keys(tasks)
    /\ SetCall(p, Ret(Begin("InsertTask", t), "ErrDB", 0))
    /\ UNCHANGED <<ledgerVars, poolVars, users, tasks, umx, omx, db_users, users_id_seq,
                   db_tasks, tasks_id_seq, accepted>>

\* an InsertTask that stores the task with the ID the caller passed
InsertTaskStore_CallerID(p) ==
    /\ At(p, "InsertTask_store")
    /\ IF tasks = NIL
       THEN /\ SetCall(p, Panic(call[p]))
            /\ UNCHANGED tasks
       ELSE /\ tasks' = Put(tasks, call[p].id, call[p].arg)
            /\ SetCall(p, Ret([call[p] EXCEPT !.wrote = TRUE], "nil", 0))
    /\ omx' = Unlocked
    /\ UNCHANGED <<ledgerVars, poolVars, users, umx, db_users, users_id_seq, db_tasks,
                   tasks_id_seq, accepted>>

\* task.ID = taskID; s.tasks[task.ID] = task; return nil
InsertTaskStore(p) ==
    /\ At(p, "InsertTask_store")
    /\ IF tasks = NIL
       THEN /\ SetCall(p, Panic(call[p]))
            /\ UNCHANGED tasks
       ELSE /\ tasks' = Put(tasks, call[p].id, Task(call[p].id, call[p].arg.Name))
            /\ SetCall(p, Ret([call[p] EXCEPT !.wrote = TRUE], "nil", 0))
    /\ omx' = Unlocked
    /\ UNCHANGED <<ledgerVars, poolVars, users, umx, db_users, users_id_seq, db_tasks,
                   tasks_id_seq, accepted>>

\* err := s.keeper.UpdateTask(ctx, task), no lock held:
\* UPDATE Tasks SET name = $2, ... WHERE id = $1
UpdateTask(p, t) ==
    /\ At(p, "idle")
    /\ db_tasks' = IF t.ID \in DOMAIN db_tasks
                   THEN [db_tasks EXCEPT ![t.ID].name = t.Name]
                   ELSE db_tasks
    /\ SetCall(p, [Begin("UpdateTask", t) EXCEPT
                      !.pc = "UpdateTask_store", !.durable = TRUE])
    /\ UNCHANGED <<ledgerVars, poolVars, users, tasks, umx, omx, db_users, users_id_seq,
                   tasks_id_seq, accepted>>

UpdateTaskFails(p, t) ==
    /\ At(p, "idle")
    /\ SetCall(p, Ret(Begin("UpdateTask", t), "ErrDB", 0))
    /\ UNCHANGED <<ledgerVars, poolVars, users, tasks, umx, omx, db_users, users_id_seq,
                   db_tasks, tasks_id_seq, accepted>>

\* s.omx.Lock(); the task in the mirror gets the name, or ErrNotFound
UpdateTaskStore(p) ==
    /\ At(p, "UpdateTask_store")
    /\ CanLock(omx)
    /\ LET t == call[p].arg
       IN IF t.ID \in Keys(tasks)
          THEN /\ tasks' = [tasks EXCEPT ![t.ID].Name = t.Name]
               /\ SetCall(p, Ret([call[p] EXCEPT !.wrote = TRUE], "nil", 0))
          ELSE /\ SetCall(p, Ret(call[p], "ErrNotFound", 0))
               /\ UNCHANGED tasks
    /\ UNCHANGED <<ledgerVars, poolVars, users, umx, omx, db_users, users_id_seq, db_tasks,
                   tasks_id_seq, accepted>>

\* s.omx.Lock(); the id must be in the mirror (ErrNotFound);
\* s.keeper.DeleteTask: DELETE FROM tasks WHERE id = $1
DeleteTask(p, id) ==
    /\ At(p, "idle")
    /\ CanLock(omx)
    /\ IF id \notin Keys(tasks)
       THEN /\ SetCall(p, Ret(Begin("DeleteTask", id), "ErrNotFound", 0))
            /\ UNCHANGED <<omx, db_tasks>>
       ELSE /\ db_tasks' = Drop(db_tasks, id)
            /\ omx' = [omx EXCEPT !.w = p]
            /\ SetCall(p, [Begin("DeleteTask", id) EXCEPT
                              !.pc = "DeleteTask_store", !.durable = TRUE])
    /\ UNCHANGED <<ledgerVars, poolVars, users, tasks, umx, db_users, users_id_seq,
                   tasks_id_seq, accepted>>

DeleteTaskFails(p, id) ==
    /\ At(p, "idle")
    /\ CanLock(omx)
    /\ id \in Keys(tasks)
    /\ SetCall(p, Ret(Begin("DeleteTask", id), "ErrDB", 0))
    /\ UNCHANGED <<ledgerVars, poolVars, users, tasks, umx, omx, db_users, users_id_seq,
                   db_tasks, tasks_id_seq, accepted>>

\* delete(s.tasks, id); return nil
DeleteTaskStore(p) ==
    /\ At(p, "DeleteTask_store")
    /\ tasks' = Drop(tasks, call[p].arg)
    /\ SetCall(p, Ret([call[p] EXCEPT !.wrote = TRUE], "nil", 0))
    /\ omx' = Unlocked
    /\ UNCHANGED <<ledgerVars, poolVars, users, umx, db_users, users_id_seq, db_tasks,
                   tasks_id_seq, accepted>>

\* the caller has the result, or net/http has recovered the panic
RepoReturn(p) ==
    /\ Alive
    /\ call[p].pc \in {"done", "panic"}
    /\ SetCall(p, IdleCall)
    /\ UNCHANGED <<ledgerVars, poolVars, users, tasks, umx, omx, db_users, users_id_seq,
                   db_tasks, tasks_id_seq, accepted>>

\* the Repository after NewMemoryStorage: the tables as migrated and seeded,
\* each mirror loaded from its table or, when the load failed, nil
InitRepo ==
    /\ user_tasks = <<>>
    /\ audit = <<>>
    /\ now = Start0
    /\ proc = [p \in Procs |-> IdleProc]
    /\ db_users \in {<<>>, [id \in {1} |-> UserRow(1, 1, 1, "a", "UTC", NULL)]}
    /\ users_id_seq = Cardinality(DOMAIN db_users)
    /\ db_tasks = <<>>
    /\ tasks_id_seq = 0
    /\ \/ users = LoadUsers(db_users) /\ tasks = LoadTasks(db_tasks)
       \/ users = NIL /\ tasks = NIL
    /\ umx = Unlocked
    /\ omx = Unlocked
    /\ call = [p \in Procs |-> IdleCall]
    /\ accepted = [id \in DOMAIN db_users |-> FieldsOf(db_users[id])]
    /\ NoService

NextRepo ==
    \E p \in Procs :
        \/ \E u \in NewUsers : InsertUser(p, u) \/ InsertUserFails(p, u)
        \/ InsertUserStore(p)
        \/ \E u \in UpdateBodies : UpdateUser(p, u) \/ UpdateUserFails(p, u)
        \/ UpdateUserStore(p)
        \/ \E u \in KeyedBodies : UpdateUserKeyed(p, u)
        \/ UpdateUserKeyedKeeper(p)
        \/ UpdateUserKeyedKeeperFails(p)
        \/ \E id \in 1..MaxUserID : DeleteUser(p, id) \/ DeleteUserFails(p, id)
        \/ DeleteUserStore(p)
        \/ \E batch \in RepoBatches :
              UpdateUsersInfo(p, batch) \/ UpdateUsersInfoFails(p, batch)
        \/ UpdateUsersInfoStore(p)
        \/ \E k \in RepoKeys : GetUser(p, k)
        \/ GetUserRange(p)
        \/ GetUserKeeper(p)
        \/ GetUserKeeperFails(p)
        \/ GetUserStore(p)
        \/ \E t \in NewTasks : InsertTask(p, t) \/ InsertTaskFails(p, t)
        \/ InsertTaskStore(p)
        \/ \E t \in TaskBodies : UpdateTask(p, t) \/ UpdateTaskFails(p, t)
        \/ UpdateTaskStore(p)
        \/ \E id \in 1..MaxTaskID : DeleteTask(p, id) \/ DeleteTaskFails(p, id)
        \/ DeleteTaskStore(p)
        \/ RepoReturn(p)

SpecRepo == InitRepo /\ [][NextRepo]_vars

\* ---------------------------------------------- UpdateUsersInfo over any table
\* the tables Users may be: each user registered or not, never checked, checked
\* one interval ago or checked just now
InfoTables ==
    UNION {[S -> {NULL, Start0 - UpdateInterval, Start0}] : S \in SUBSET (1..MaxUserID)}

InitInfo ==
    /\ user_tasks = <<>>
    /\ audit = <<>>
    /\ now = Start0
    /\ proc = [p \in Procs |-> IdleProc]
    /\ \E t \in InfoTables :
          db_users = [id \in DOMAIN t |-> UserRow(id, 1, id, "a", "UTC", t[id])]
    /\ users_id_seq = MaxUserID
    /\ users = LoadUsers(db_users)
    /\ db_tasks = <<>>
    /\ tasks_id_seq = 0
    /\ tasks = LoadTasks(db_tasks)
    /\ umx = Unlocked
    /\ omx = Unlocked
    /\ call = [p \in Procs |-> IdleCall]
    /\ accepted = [id \in DOMAIN db_users |-> FieldsOf(db_users[id])]
    /\ NoService

NextInfo ==
    \/ Tick
    \/ \E p \in Procs :
        \/ \E batch \in Batches :
              UpdateUsersInfo(p, batch) \/ UpdateUsersInfoFails(p, batch)
        \/ UpdateUsersInfoStore(p)
        \/ RepoReturn(p)

SpecInfo == InitInfo /\ [][NextInfo]_vars

\* ------------------------------------------------- MemoryStorage.GetUsers
\* the largest int, and Go's int addition, which wraps around
MaxInt == 2 ^ (IntWidth - 1) - 1
IntAdd(a, b) ==
    ((a + b + 2 ^ (IntWidth - 1)) % (2 ^ IntWidth)) - 2 ^ (IntWidth - 1)

\* strings.Contains(s, substr), strings being sequences of characters
Contains(s, substr) ==
    \E i \in 0..(Len(s) - Len(substr)) : SubSeq(s, i + 1, i + Len(substr)) = substr

\* the users listed: passport 1 n or 2 n, with a surname and a timezone
ListedUsers ==
    [id \in 1..MaxListed |->
        User(id, 1 + (id % 2), id, IF id = 2 THEN <<"a", "b">> ELSE <<"a">>,
             IF id = 3 THEN <<"M">> ELSE <<"U">>)]

\* models.Filter: a field is a pointer, here the empty set (nil) or the set of
\* the value pointed to.  The handler sets a field for a parameter that is
\* not empty
Filters ==
    [PassportSerie : {{}, {1}}, PassportNumber : {{}, {2}},
     Surname : {{}, {<<"a">>}, {<<"b">>}, {<<"b", "a">>}}, Timezone : {{}, {<<"U">>}}]

\* models.Pagination with offset >= 0 and limit >= 0
Paginations == [Offset : 0..MaxListed, Limit : {0, 1, 2, MaxInt}]

\* the user passes every check of the loop body
Passes(user, filter) ==
    /\ \A v \in filter.PassportSerie : v = user.PassportSerie
    /\ \A v \in filter.PassportNumber : v = user.PassportNumber
    /\ \A v \in filter.Surname : Contains(user.Surname, v)
    /\ \A v \in filter.Timezone : Contains(user.Timezone, v)

\* the orders in which range may visit the keys of map m: any, and not the
\* same from one loop to the next
RangeOrders(m) ==
    {o \in [1..Cardinality(Keys(m)) -> Keys(m)] :
        \A i, j \in DOMAIN o : i # j => o[i] # o[j]}

\* result after the loop that visits the keys in order o
Appended(m, filter, o) ==
    LET keep(id) == Passes(m[id], filter)
        ids == SelectSeq(o, keep)
    IN [i \in DOMAIN ids |-> m[ids[i]]]

\* start := pagination.Offset; end := start + pagination.Limit; the two
\* checks; return result[start:end], nil.  The slice expression panics when
\* end < start
Window(result, pagination) ==
    LET start == pagination.Offset
        sum == IntAdd(start, pagination.Limit)
        end == IF sum > Len(result) THEN Len(result) ELSE sum
    IN IF start >= Len(result) THEN [users |-> <<>>, err |-> "nil"]
       ELSE IF end < start THEN [users |-> <<>>, err |-> "panic"]
       ELSE [users |-> SubSeq(result, start + 1, end), err |-> "nil"]

\* what GetUsers(filter, pagination) may return over mirror m
GetUsersResults(m, filter, pagination) ==
    {Window(Appended(m, filter, o), pagination) : o \in RangeOrders(m)}

\* the goroutine of the client that lists the users
Lister == CHOOSE p \in Procs : TRUE

\* a call of GetUsers: s.umx.RLock(), the loop, the window, return.  The call
\* record keeps the request and the pages the client has got so far
GetUsers(p, filter, pagination) ==
    /\ At(p, "idle")
    /\ CanRLock(umx)
    /\ \E r \in GetUsersResults(users, filter, pagination) :
          SetCall(p, [IdleCall EXCEPT
                        !.pc = IF r.err = "panic" THEN "panic" ELSE "done",
                        !.op = "GetUsers", !.err = r.err,
                        !.arg = [filter |-> filter, pagination |-> pagination],
                        !.out = <<r.users>>])
    /\ UNCHANGED <<ledgerVars, poolVars, users, tasks, umx, omx, db_users, users_id_seq,
                   db_tasks, tasks_id_seq, accepted>>

\* the client asks for the next page: the same filter and limit, the offset
\* raised by the limit, after a page that was not empty
GetUsersNextPage(p) ==
    /\ At(p, "done")
    /\ call[p].op = "GetUsers"
    /\ CanRLock(umx)
    /\ LET pagination == call[p].arg.pagination
           next == [pagination EXCEPT !.Offset = @ + pagination.Limit]
       IN /\ pagination.Limit >= 1
          /\ pagination.Offset + pagination.Limit <= MaxInt
          /\ pagination.Offset = (Len(call[p].out) - 1) * pagination.Limit
          /\ call[p].out[Len(call[p].out)] # <<>>
          /\ \E r \in GetUsersResults(users, call[p].arg.filter, next) :
                SetCall(p, [call[p] EXCEPT
                              !.pc = IF r.err = "panic" THEN "panic" ELSE "done",
                              !.err = r.err,
                              !.arg = [filter |-> call[p].arg.filter,
                                       pagination |-> next],
                              !.out = Append(call[p].out, r.users)])
    /\ UNCHANGED <<ledgerVars, poolVars, users, tasks, umx, omx, db_users, users_id_seq,
                   db_tasks, tasks_id_seq, accepted>>

\* the mirror holds any of the listed users; nothing writes it
InitGetUsers ==
    /\ user_tasks = <<>>
    /\ audit = <<>>
    /\ now = Start0
    /\ proc = [p \in Procs |-> IdleProc]
    /\ \E S \in SUBSET (1..MaxListed) : users = [id \in S |-> ListedUsers[id]]
    /\ db_users = <<>>
    /\ users_id_seq = 0
    /\ db_tasks = <<>>
    /\ tasks_id_seq = 0
    /\ tasks = <<>>
    /\ umx = Unlocked
    /\ omx = Unlocked
    /\ call = [p \in Procs |-> IdleCall]
    /\ accepted = <<>>
    /\ NoService

NextGetUsers ==
    \/ \E filter \in Filters, pagination \in Paginations :
          GetUsers(Lister, filter, pagination)
    \/ GetUsersNextPage(Lister)
    \/ RepoReturn(Lister)

SpecGetUsers == InitGetUsers /\ [][NextGetUsers]_vars

\* ======================================================= BaseController, JWTAuthz
\* Strings the handlers parse are sequences of characters.
\* strconv.Atoi on the strings in use: decimal digits, at least one
DigitValue == [c \in {"0", "1", "2"} |-> IF c = "0" THEN 0 ELSE IF c = "1" THEN 1 ELSE 2]

RECURSIVE AtoiValue(_)
AtoiValue(s) ==
    IF s = <<>> THEN 0
    ELSE 10 * AtoiValue(SubSeq(s, 1, Len(s) - 1)) + DigitValue[s[Len(s)]]

Atoi(s) ==
    IF s # <<>> /\ \A i \in 1..Len(s) : s[i] \in DOMAIN DigitValue
    THEN [n |-> AtoiValue(s), err |-> "nil"]
    ELSE [n |-> 0, err |-> "invalid syntax"]

\* strings.Split(s, sep)
RECURSIVE Split(_, _)
Split(s, sep) ==
    IF \A i \in 1..Len(s) : s[i] # sep THEN <<s>>
    ELSE LET i == CHOOSE i \in 1..Len(s) :
                      s[i] = sep /\ \A j \in 1..(i - 1) : s[j] # sep
         IN <<SubSeq(s, 1, i - 1)>> \o Split(SubSeq(s, i + 1, Len(s)), sep)

\* parsePassportData, the same in BaseController and in JWTAuthz
parsePassportData(passportNumber) ==
    LET parts == Split(passportNumber, " ")
        bad(e) == [passportSerie |-> 0, passportNumber |-> 0, err |-> e]
    IN IF Len(parts) # 2 THEN bad("invalid passport number format")
       ELSE IF Atoi(parts[1]).err # "nil" THEN bad("invalid passport series format")
       ELSE IF Atoi(parts[2]).err # "nil" THEN bad("invalid passport number format")
       ELSE [passportSerie |-> Atoi(parts[1]).n, passportNumber |-> Atoi(parts[2]).n,
             err |-> "nil"]

\* JWTAuthz.GetHash: SHA-256 of passportNumber + password; the digest stands
\* for the string it was taken of
GetHash(passportNumber, password) == passportNumber \o password

\* bytes.Equal
HashEqual_Always(a, b) == TRUE
HashEqual(a, b) == a = b

\* hex.EncodeToString and hex.DecodeString
HexEncode(h) == [hex |-> h]
HexDecode(x) == x.hex

\* the key the server signs with, and a token string: the number of its
\* dot-separated segments, the key of its signature and its claim.  NoToken is
\* the empty string
SigningKey == "key"
Token(segments, key, passportNumber) ==
    [segments |-> segments, key |-> key, PassportNumber |-> passportNumber]
NoToken == Token(0, "", <<>>)

\* JWTAuthz.CreateJWTTokenForUser
CreateJWTTokenForUser(userid) == Token(3, SigningKey, userid)

\* JWTAuthz.DecodeJWTToUser.  jwt.ParseWithClaims returns a nil *Token with its
\* error when the string has not three segments, and decodedToken.Claims then
\* dereferences nil: a panic.  A token whose signature does not verify is not
\* Valid: "", err
DecodeJWTToUser(token) ==
    IF token = NoToken THEN [userID |-> <<>>, err |-> "empty token"]
    ELSE IF token.segments # 3 THEN [userID |-> <<>>, err |-> "panic"]
    ELSE IF token.key # SigningKey THEN [userID |-> <<>>, err |-> "signature is invalid"]
    ELSE [userID |-> token.PassportNumber, err |-> "nil"]

\* time.LoadLocation: the names in use and their offsets; the server runs in UTC
LoadLocation(name) ==
    IF name \in {"", "UTC", "Local"} THEN [off |-> 0, err |-> "nil"]
    ELSE [off |-> 0, err |-> "unknown time zone"]

\* models.User and a row of Users with the password hash
Hashed(user, hash) ==
    [f \in DOMAIN user \cup {"Hash"} |-> IF f = "Hash" THEN hash ELSE user[f]]
HashedRow(row, hex) ==
    [f \in DOMAIN row \cup {"password_hash"} |->
        IF f = "password_hash" THEN hex ELSE row[f]]
\* BDKeeper.GetUser and LoadUsers: the user a row scans to
RowUser(row) ==
    Hashed(User(row.id, row.passportSerie, row.passportNumber, row.surname,
                row.timezone),
           HexDecode(row.password_hash))

\* ------------------------------------------ the Repository, one call at a time
\* The handlers below run one at a time; a call of the Repository is taken as a
\* whole, from state st = [users, db, seq, rows, tasks, dbt] (the mirror, table
\* Users, its sequence, table user_tasks, the tasks mirror, table tasks) to the
\* states and results it can end in.
Store ==
    [users |-> users, db |-> db_users, seq |-> users_id_seq, rows |-> user_tasks,
     tasks |-> tasks, dbt |-> db_tasks]

RowsWith(db, k) ==
    {id \in DOMAIN db : db[id].passportSerie = k[1] /\ db[id].passportNumber = k[2]}

\* MemoryStorage.GetUser: the mirror, else the gateway, whose user is written
\* to the mirror (a nil map panics)
StoreGetUser(st, k) ==
    LET found == Match(st.users, k)
        hit == RowsWith(st.db, k)
        miss(e) == [st |-> st, user |-> Hashed(ZeroUser, <<>>), err |-> e]
    IN IF found # {}
       THEN {[st |-> st, user |-> st.users[id], err |-> "nil"] : id \in found}
       ELSE {miss("ErrDB")} \cup
            (IF hit = {} THEN {miss("user not found")}
             ELSE IF st.users = NIL THEN {miss("panic")}
             ELSE {[st |-> [st EXCEPT !.users = Put(@, id, RowUser(st.db[id]))],
                    user |-> RowUser(st.db[id]), err |-> "nil"] : id \in hit})

\* MemoryStorage.InsertUser over BDKeeper.SaveUser
StoreInsertUser(st, u) ==
    LET id == st.seq + 1
        row == HashedRow(UserRow(id, u.PassportSerie, u.PassportNumber, u.Surname,
                                 u.Timezone, NULL),
                         HexEncode(u.Hash))
        saved == [st EXCEPT !.db = Put(@, id, row), !.seq = id]
    IN {[st |-> st, err |-> "ErrDB"]} \cup
       (IF RowsWith(st.db, <<u.PassportSerie, u.PassportNumber>>) # {}
        THEN {[st |-> st, err |-> "ErrNoRows"]}
        ELSE IF st.users = NIL THEN {[st |-> saved, err |-> "panic"]}
        ELSE {[st |-> [saved EXCEPT !.users = Put(@, id, u)], err |-> "nil"]})

\* MemoryStorage.UpdateUser over BDKeeper.UpdateUser
StoreUpdateUser(st, u) ==
    IF u.UUID \notin Keys(st.users) THEN {[st |-> st, err |-> "ErrNotFound"]}
    ELSE {[st |-> st, err |-> "ErrDB"]} \cup
         (IF u.Surname = "" /\ u.Timezone = "" THEN {}
          ELSE {[st |-> [st EXCEPT
                           !.db = IF u.UUID \in DOMAIN @
                                  THEN [@ EXCEPT ![u.UUID] = UpdatedRow(@, u)]
                                  ELSE @,
                           !.users = Put(@, u.UUID, u)],
                 err |-> "nil"]})

\* a DeleteUser over a table user_tasks without FOREIGN KEY (user_id)
StoreDeleteUser_NoForeignKey(st, id) ==
    IF id \notin Keys(st.users) THEN {[st |-> st, err |-> "ErrNotFound"]}
    ELSE {[st |-> st, err |-> "ErrDB"],
          [st |-> [st EXCEPT !.db = IF id \in DOMAIN @ THEN Drop(@, id) ELSE @,
                             !.users = Drop(@, id)],
           err |-> "nil"]}

\* MemoryStorage.DeleteUser over BDKeeper.DeleteUser; a user whose rows of
\* user_tasks refer to it cannot be deleted (FOREIGN KEY)
StoreDeleteUser(st, id) ==
    IF id \notin Keys(st.users) THEN {[st |-> st, err |-> "ErrNotFound"]}
    ELSE {[st |-> st, err |-> "ErrDB"]} \cup
         (IF \E i \in DOMAIN st.rows : st.rows[i].user_id = id THEN {}
          ELSE {[st |-> [st EXCEPT !.db = IF id \in DOMAIN @ THEN Drop(@, id) ELSE @,
                                   !.users = Drop(@, id)],
                 err |-> "nil"]})

\* MemoryStorage.DeleteTask over BDKeeper.DeleteTask; a task whose rows of
\* user_tasks refer to it cannot be deleted (FOREIGN KEY)
StoreDeleteTask(st, id) ==
    IF id \notin Keys(st.tasks) THEN {[st |-> st, err |-> "ErrNotFound"]}
    ELSE {[st |-> st, err |-> "ErrDB"]} \cup
         (IF \E i \in DOMAIN st.rows : st.rows[i].task_id = id THEN {}
          ELSE {[st |-> [st EXCEPT !.dbt = IF id \in DOMAIN @ THEN Drop(@, id) ELSE @,
                                   !.tasks = Drop(@, id)],
                 err |-> "nil"]})

\* MemoryStorage.StartTaskTracking over BDKeeper.StartTaskTracking: the check
\* query, the INSERT (user_id and task_id are FOREIGN KEYs), the commit, whose
\* failure is not returned
StoreStartTaskTracking(st, entry) ==
    LET open == {i \in DOMAIN st.rows :
                    /\ st.rows[i].user_id = entry.UserID
                    /\ st.rows[i].task_id = entry.TaskID
                    /\ st.rows[i].event_date = entry.EventDate
                    /\ st.rows[i].end_time = NULL}
        row == Row(entry.UserID, entry.TaskID, entry.EventDate,
                   TimeTz(now, entry.off), NULL)
    IN {[st |-> st, err |-> "ErrDB"]} \cup
       (IF open # {} THEN {[st |-> st, err |-> "ErrAlreadyTracking"]}
        ELSE IF entry.UserID \notin DOMAIN st.db \/ entry.TaskID \notin DOMAIN st.dbt
        THEN {}
        ELSE {[st |-> [st EXCEPT !.rows = Append(@, row)], err |-> "nil"],
              [st |-> st, err |-> "nil"]})

\* ------------------------------------------------------------ the requests
\* the configured default end time (DEFAULT_END_TIME), as set and as mistyped
DefaultEndTimes == {<<"1", "2", ":", "0", "0">>, <<"1", "2">>}
\* PassportNumber strings and passwords sent in bodies
PassportStrings ==
    {<<>>, <<"1">>, <<"x", " ", "1">>, <<"1", " ", "1">>, <<"1", " ", "2">>}
Passwords == {<<>>, <<"p">>, <<"q">>}
\* models.RequestUser bodies, and a body that is not JSON
RequestUser(json, passportNumber, password) ==
    [json |-> json, PassportNumber |-> passportNumber, Password |-> password]
NotJSON == RequestUser(FALSE, <<>>, <<>>)
RequestUsers ==
    {NotJSON} \cup {RequestUser(TRUE, n, w) : n \in PassportStrings, w \in Passwords}
AddUserBodies ==
    {NotJSON} \cup {RequestUser(TRUE, n, <<>>) :
                       n \in {<<"1">>, <<"0", " ", "1">>, <<"1", " ", "1">>,
                              <<"1", " ", "2">>}}
\* models.User bodies sent to PATCH /api/user/{id}
PatchBodies ==
    {[json |-> FALSE, user |-> Hashed(ZeroUser, <<>>)],
     [json |-> TRUE, user |-> Hashed(User(0, 0, 0, "", "Mars"), <<>>)]}
\* the {id} of a URL
IdStrings == {<<"x">>, <<"1">>, <<"2">>}
\* models.RequestTask bodies
RequestTasks ==
    {[json |-> FALSE, ID |-> <<>>]} \cup {[json |-> TRUE, ID |-> s] : s \in IdStrings}
\* models.RequestData bodies
RequestDatas == {[json |-> FALSE, TaskID |-> 0], [json |-> TRUE, TaskID |-> 1]}
\* the tokens a request carries in its cookie jwt-token or its Authorization
\* header: none, a string that is no JWT, a JWT signed with another key,
\* and tokens of the server for a registered passport and for a string that
\* is no passport
Tokens ==
    {NoToken, Token(1, "", <<>>), Token(3, "other", <<"1", " ", "1">>),
     CreateJWTTokenForUser(<<"1", " ", "1">>), CreateJWTTokenForUser(<<"1">>)}

\* the cookie and the header of a request: one of them alone, or a cookie
\* together with no header or a token of the server in the header
Credentials ==
    {c \in Tokens \X Tokens :
        \/ c[1] = NoToken
        \/ c[2] \in {NoToken, CreateJWTTokenForUser(<<"1", " ", "1">>)}}

Request(body, cfg, cookie, header, id) ==
    [body |-> body, defaultEndTime |-> cfg, cookie |-> cookie, header |-> header,
     id |-> id]

\* what a handler leaves: the Repository after it, the status written (0: the
\* goroutine panicked and net/http closed the connection), the token set in
\* the cookies and the header, the errors its calls of InsertUser and of GetUser
\* returned, the error that ended it, and whether the middleware passed the
\* request on (public routes: TRUE)
Effect(st, status, token, insertUser, getUser, err) ==
    [st |-> st, status |-> status, token |-> token, insertUser |-> insertUser,
     getUser |-> getUser, err |-> err, next |-> TRUE]

\* parseDefaultEndTime: time.ParseInLocation("15:04", h.defaultEndTime(), loc)
parseDefaultEndTime(s) ==
    IF /\ Len(s) = 5
       /\ s[3] = ":"
       /\ Atoi(SubSeq(s, 1, 2)).err = "nil" /\ Atoi(SubSeq(s, 1, 2)).n < 24
       /\ Atoi(SubSeq(s, 4, 5)).err = "nil" /\ Atoi(SubSeq(s, 4, 5)).n < 60
    THEN "nil" ELSE "parsing time"

\* ------------------------------------------------- BaseController.Register
\* the handler after GetUser has returned g
RegisterInsert_Always200(g, body, cfg, key) ==
    IF g.err = "panic" THEN {Effect(g.st, 0, NoToken, <<>>, <<"panic">>, "panic")}
    ELSE IF g.err = "nil"
    THEN {Effect(g.st, 409, NoToken, <<>>, <<"nil">>, "login is already taken")}
    ELSE IF parseDefaultEndTime(cfg) # "nil"
    THEN {Effect(g.st, 500, NoToken, <<>>, <<g.err>>, "config")}
    ELSE LET Hash == GetHash(body.PassportNumber, body.Password)
             userData == Hashed(User(0, key.passportSerie, key.passportNumber, "",
                                     "Local"), Hash)
         IN {IF i.err = "panic"
             THEN Effect(i.st, 0, NoToken, <<"panic">>, <<g.err>>, "panic")
             ELSE Effect(i.st, 200, CreateJWTTokenForUser(body.PassportNumber),
                         <<i.err>>, <<g.err>>, i.err)
             : i \in StoreInsertUser(g.st, userData)}

RegisterInsert(g, body, cfg, key) ==
    IF g.err = "panic" THEN {Effect(g.st, 0, NoToken, <<>>, <<"panic">>, "panic")}
    ELSE IF g.err = "nil"
    THEN {Effect(g.st, 409, NoToken, <<>>, <<"nil">>, "login is already taken")}
    ELSE IF parseDefaultEndTime(cfg) # "nil"
    THEN {Effect(g.st, 500, NoToken, <<>>, <<g.err>>, "config")}
    ELSE LET Hash == GetHash(body.PassportNumber, body.Password)
             userData == Hashed(User(0, key.passportSerie, key.passportNumber, "",
                                     "Local"), Hash)
         IN {IF i.err = "panic"
             THEN Effect(i.st, 0, NoToken, <<"panic">>, <<g.err>>, "panic")
             ELSE IF i.err = "ErrConflict"
             THEN Effect(i.st, 409, NoToken, <<i.err>>, <<g.err>>, i.err)
             ELSE IF i.err # "nil"
             THEN Effect(i.st, 500, NoToken, <<i.err>>, <<g.err>>, i.err)
             ELSE Effect(i.st, 200, CreateJWTTokenForUser(body.PassportNumber),
                         <<"nil">>, <<g.err>>, "nil")
             : i \in StoreInsertUser(g.st, userData)}

Register(st, body, cfg) ==
    LET key == parsePassportData(body.PassportNumber)
    IN IF ~body.json THEN {Effect(st, 400, NoToken, <<>>, <<>>, "decode")}
       ELSE IF body.PassportNumber = <<>> \/ body.Password = <<>>
       THEN {Effect(st, 400, NoToken, <<>>, <<>>, "empty")}
       ELSE IF key.err # "nil" THEN {Effect(st, 400, NoToken, <<>>, <<>>, "passport")}
       ELSE UNION {RegisterInsert(g, body, cfg, key) :
                      g \in StoreGetUser(st, <<key.passportSerie, key.passportNumber>>)}

\* ---------------------------------------------------- BaseController.Login
Login(st, body) ==
    LET key == parsePassportData(body.PassportNumber)
    IN IF ~body.json THEN {Effect(st, 400, NoToken, <<>>, <<>>, "decode")}
       ELSE IF key.err # "nil" THEN {Effect(st, 400, NoToken, <<>>, <<>>, "passport")}
       ELSE {IF g.err = "panic"
             THEN Effect(g.st, 0, NoToken, <<>>, <<"panic">>, "panic")
             ELSE IF g.err # "nil"
             THEN Effect(g.st, 401, NoToken, <<>>, <<g.err>>, g.err)
             ELSE IF ~HashEqual(g.user.Hash, GetHash(body.PassportNumber, body.Password))
             THEN Effect(g.st, 401, NoToken, <<>>, <<"nil">>, "hash")
             ELSE Effect(g.st, 200, CreateJWTTokenForUser(body.PassportNumber),
                         <<>>, <<"nil">>, "nil")
             : g \in StoreGetUser(st, <<key.passportSerie, key.passportNumber>>)}

\* --------------------------------------------------- BaseController.AddUser
AddUser(st, body, cfg) ==
    LET key == parsePassportData(body.PassportNumber)
        user == Hashed(User(0, key.passportSerie, key.passportNumber, "", "Local"),
                       <<>>)
    IN IF ~body.json THEN {Effect(st, 400, NoToken, <<>>, <<>>, "decode")}
       ELSE IF key.err # "nil" THEN {Effect(st, 400, NoToken, <<>>, <<>>, "passport")}
       ELSE IF key.passportSerie = 0 \/ key.passportNumber = 0
       THEN {Effect(st, 400, NoToken, <<>>, <<>>, "zero")}
       ELSE IF parseDefaultEndTime(cfg) # "nil"
       THEN {Effect(st, 500, NoToken, <<>>, <<>>, "config")}
       ELSE {IF i.err = "panic"
             THEN Effect(i.st, 0, NoToken, <<"panic">>, <<>>, "panic")
             ELSE IF i.err # "nil"
             THEN Effect(i.st, 500, NoToken, <<i.err>>, <<>>, i.err)
             ELSE Effect(i.st, 200, NoToken, <<"nil">>, <<>>, "nil")
             : i \in StoreInsertUser(st, user)}

\* ------------------------------------- BaseController.UpdateUser and DeleteUser
CtlUpdateUser(st, idStr, body) ==
    IF Atoi(idStr).err # "nil" THEN {Effect(st, 400, NoToken, <<>>, <<>>, "id")}
    ELSE IF ~body.json THEN {Effect(st, 400, NoToken, <<>>, <<>>, "decode")}
    ELSE {Effect(r.st, IF r.err = "ErrNotFound" THEN 404
                       ELSE IF r.err # "nil" THEN 500 ELSE 200,
                 NoToken, <<>>, <<>>, r.err)
          : r \in StoreUpdateUser(st, [body.user EXCEPT !.UUID = Atoi(idStr).n])}

CtlDeleteUser(st, idStr) ==
    IF Atoi(idStr).err # "nil" THEN {Effect(st, 400, NoToken, <<>>, <<>>, "id")}
    ELSE {Effect(r.st, IF r.err = "ErrNotFound" THEN 404
                       ELSE IF r.err # "nil" THEN 500 ELSE 200,
                 NoToken, <<>>, <<>>, r.err)
          : r \in StoreDeleteUser(st, Atoi(idStr).n)}

\* BaseController.DeleteTask: the id is read from the body
CtlDeleteTask(st, reqData) ==
    IF ~reqData.json THEN {Effect(st, 400, NoToken, <<>>, <<>>, "decode")}
    ELSE IF Atoi(reqData.ID).err # "nil"
    THEN {Effect(st, 400, NoToken, <<>>, <<>>, "id")}
    ELSE {Effect(r.st, IF r.err = "ErrNotFound" THEN 404
                       ELSE IF r.err # "nil" THEN 500 ELSE 200,
                 NoToken, <<>>, <<>>, r.err)
          : r \in StoreDeleteTask(st, Atoi(reqData.ID).n)}

\* ------------------------------------------ BaseController.StartTaskTracking
\* the whole handler: the user is looked up with GetUsers, filter by passport,
\* Limit 1
HandleStartTaskTracking(st, userID, reqData) ==
    LET key == parsePassportData(userID)
        filter == [PassportSerie |-> {key.passportSerie},
                   PassportNumber |-> {key.passportNumber},
                   Surname |-> {}, Timezone |-> {}]
        entryFor(user) ==
            [EventDate |-> EventDateOf(now, LoadLocation(user.Timezone).off),
             UserID |-> user.UUID, TaskID |-> reqData.TaskID,
             off |-> LoadLocation(user.Timezone).off]
    IN IF ~reqData.json THEN {Effect(st, 400, NoToken, <<>>, <<>>, "decode")}
       ELSE IF userID = <<>> THEN {Effect(st, 401, NoToken, <<>>, <<>>, "userID")}
       ELSE IF key.err # "nil" THEN {Effect(st, 400, NoToken, <<>>, <<>>, "passport")}
       ELSE UNION {
              IF r.err # "nil" \/ r.users = <<>>
              THEN {Effect(st, 404, NoToken, <<>>, <<>>, "user not found")}
              ELSE IF LoadLocation(r.users[1].Timezone).err # "nil"
              THEN {Effect(st, 500, NoToken, <<>>, <<>>, "invalid user timezone")}
              ELSE {Effect(s.st, IF s.err # "nil" THEN 500 ELSE 200, NoToken,
                           <<>>, <<>>, s.err)
                    : s \in StoreStartTaskTracking(st, entryFor(r.users[1]))}
              : r \in GetUsersResults(st.users, filter, [Offset |-> 0, Limit |-> 1])}

\* --------------------------------------------- JWTAuthz.JWTAuthzMiddleware
\* the middleware up to next.ServeHTTP: the Repository after it, the userID
\* put in the context, and "nil" (the request is passed on), "panic", or why
\* the answer is 401
Authorize(st, cookie, header) ==
    LET c == IF cookie # NoToken THEN DecodeJWTToUser(cookie)
             ELSE [userID |-> <<>>, err |-> "no cookie"]
        fromCookie == IF c.err = "nil" THEN c.userID ELSE <<>>
        h == IF fromCookie = <<>> /\ header # NoToken THEN DecodeJWTToUser(header)
             ELSE [userID |-> fromCookie, err |-> "nil"]
        userID == IF h.err = "nil" THEN h.userID ELSE <<>>
        key == parsePassportData(userID)
        stop(e) == {[st |-> st, userID |-> <<>>, err |-> e]}
    IN IF c.err = "panic" \/ h.err = "panic" THEN stop("panic")
       ELSE IF userID = <<>> THEN stop("no token")
       ELSE IF key.err # "nil" THEN stop(key.err)
       ELSE {[st |-> g.st, userID |-> IF g.err = "nil" THEN userID ELSE <<>>,
              err |-> g.err]
             : g \in StoreGetUser(st, <<key.passportSerie, key.passportNumber>>)}

\* r.Use(h.authz.JWTAuthzMiddleware(h.log)) before handler next; next[a] is
\* what the handler does with the request the middleware passes on as a
Protected(st, cookie, header, next) ==
    UNION {IF a.err = "nil" THEN next[a]
           ELSE {[Effect(a.st, IF a.err = "panic" THEN 0 ELSE 401, NoToken,
                         <<>>, <<>>, a.err) EXCEPT !.next = FALSE]}
           : a \in Authorize(st, cookie, header)}

\* ------------------------------------------------------------ the routes
\* the client whose requests the server handles, one at a time
Client == CHOOSE p \in Procs : TRUE

\* a request to route op is served: one of the effects of its handler
Serve(p, op, req, effects) ==
    /\ At(p, "idle")
    /\ \E e \in effects :
          /\ users' = e.st.users
          /\ db_users' = e.st.db
          /\ users_id_seq' = e.st.seq
          /\ user_tasks' = e.st.rows
          /\ tasks' = e.st.tasks
          /\ db_tasks' = e.st.dbt
          /\ audit' = IF e.st.rows # user_tasks THEN Append(audit, LocalDay(now, 0))
                      ELSE audit
          /\ SetCall(p, [IdleCall EXCEPT
                           !.pc = IF e.status = 0 THEN "panic" ELSE "done",
                           !.op = op, !.arg = req, !.err = e.err,
                           !.out = [status |-> e.status, token |-> e.token,
                                    insertUser |-> e.insertUser,
                                    getUser |-> e.getUser, next |-> e.next]])
    /\ UNCHANGED <<now, proc, umx, omx, tasks_id_seq, accepted, poolVars>>

\* an INSERT into Users finds an id below the bound
InsertFits(body) ==
    LET key == parsePassportData(body.PassportNumber)
    IN \/ users_id_seq < MaxUserID
       \/ RowsWith(db_users, <<key.passportSerie, key.passportNumber>>) # {}

ServeRegister(p, body, cfg) ==
    /\ At(p, "idle")
    /\ InsertFits(body)
    /\ Serve(p, "Register", Request(body, cfg, NoToken, NoToken, <<>>),
             Register(Store, body, cfg))

ServeLogin(p, body) ==
    Serve(p, "Login", Request(body, <<>>, NoToken, NoToken, <<>>), Login(Store, body))

ServeAddUser(p, body, cfg, cookie, header) ==
    LET next == [a \in Authorize(Store, cookie, header) |-> AddUser(a.st, body, cfg)]
    IN /\ At(p, "idle")
       /\ InsertFits(body)
       /\ Serve(p, "AddUser", Request(body, cfg, cookie, header, <<>>),
                Protected(Store, cookie, header, next))

ServeUpdateUser(p, id, body, cookie, header) ==
    LET next == [a \in Authorize(Store, cookie, header) |->
                    CtlUpdateUser(a.st, id, body)]
    IN Serve(p, "UpdateUser", Request(body, <<>>, cookie, header, id),
             Protected(Store, cookie, header, next))

ServeDeleteUser(p, id, cookie, header) ==
    LET next == [a \in Authorize(Store, cookie, header) |-> CtlDeleteUser(a.st, id)]
    IN Serve(p, "DeleteUser", Request(NotJSON, <<>>, cookie, header, id),
             Protected(Store, cookie, header, next))

ServeDeleteTask(p, reqData, cookie, header) ==
    LET next == [a \in Authorize(Store, cookie, header) |-> CtlDeleteTask(a.st, reqData)]
    IN Serve(p, "DeleteTask", Request(reqData, <<>>, cookie, header, <<>>),
             Protected(Store, cookie, header, next))

ServeStartTaskTracking(p, reqData, cookie, header) ==
    LET next == [a \in Authorize(Store, cookie, header) |->
                    HandleStartTaskTracking(a.st, a.userID, reqData)]
    IN /\ At(p, "idle")
       /\ Len(user_tasks) < MaxRows
       /\ Serve(p, "StartTaskTracking", Request(reqData, <<>>, cookie, header, <<>>),
                Protected(Store, cookie, header, next))

\* the server after start: table Users empty or with one registered user
\* (passport 1 1, password p), the mirror loaded from it or nil; one task
InitCtl ==
    /\ user_tasks = <<>>
    /\ audit = <<>>
    /\ now = Start0
    /\ proc = [p \in Procs |-> IdleProc]
    /\ db_users \in
          {<<>>,
           [id \in {1} |->
              HashedRow(UserRow(1, 1, 1, "", "Local", NULL),
                        HexEncode(GetHash(<<"1", " ", "1">>, <<"p">>)))]}
    /\ users_id_seq = Cardinality(DOMAIN db_users)
    /\ db_tasks = [k \in Tasks |-> TaskRow(k, "n")]
    /\ tasks_id_seq = Cardinality(Tasks)
    /\ \/ users = [id \in DOMAIN db_users |-> RowUser(db_users[id])]
          /\ tasks = LoadTasks(db_tasks)
       \/ users = NIL /\ tasks = NIL
    /\ umx = Unlocked
    /\ omx = Unlocked
    /\ call = [p \in Procs |-> IdleCall]
    /\ accepted = <<>>
    /\ NoService

NextCtl ==
    \/ \E body \in RequestUsers, cfg \in DefaultEndTimes :
          ServeRegister(Client, body, cfg)
    \/ \E body \in RequestUsers : ServeLogin(Client, body)
    \/ \E c \in Credentials :
          \/ \E body \in AddUserBodies, cfg \in DefaultEndTimes :
                ServeAddUser(Client, body, cfg, c[1], c[2])
          \/ \E id \in IdStrings, body \in PatchBodies :
                ServeUpdateUser(Client, id, body, c[1], c[2])
          \/ \E id \in IdStrings : ServeDeleteUser(Client, id, c[1], c[2])
          \/ \E reqData \in RequestTasks : ServeDeleteTask(Client, reqData, c[1], c[2])
          \/ \E reqData \in RequestDatas :
                ServeStartTaskTracking(Client, reqData, c[1], c[2])
    \/ RepoReturn(Client)

SpecCtl == InitCtl /\ [][NextCtl]_vars

\* ------------------------------------------------- the tasks mirror alone
\* the tasks sent to InsertTask, with an ID the caller chose, and the updates
\* sent to UpdateTask
TaskInserts == {Task(id, "n") : id \in {0, MaxTaskID + 1}}
TaskUpdates == {Task(id, name) : id \in 1..MaxTaskID, name \in {"m", "k"}}

\* table tasks empty or with one task, the mirror loaded from it or nil
InitTasks ==
    /\ user_tasks = <<>>
    /\ audit = <<>>
    /\ now = Start0
    /\ proc = [p \in Procs |-> IdleProc]
    /\ db_users = <<>>
    /\ users_id_seq = 0
    /\ db_tasks \in {<<>>, [id \in {1} |-> TaskRow(1, "n")]}
    /\ tasks_id_seq = Cardinality(DOMAIN db_tasks)
    /\ \/ users = LoadUsers(db_users) /\ tasks = LoadTasks(db_tasks)
       \/ users = NIL /\ tasks = NIL
    /\ umx = Unlocked
    /\ omx = Unlocked
    /\ call = [p \in Procs |-> IdleCall]
    /\ accepted = <<>>
    /\ NoService

NextTasks ==
    \E p \in Procs :
        \/ \E t \in TaskInserts : InsertTask(p, t) \/ InsertTaskFails(p, t)
        \/ InsertTaskStore(p)
        \/ \E t \in TaskUpdates : UpdateTask(p, t) \/ UpdateTaskFails(p, t)
        \/ UpdateTaskStore(p)
        \/ \E id \in 1..MaxTaskID : DeleteTask(p, id) \/ DeleteTaskFails(p, id)
        \/ DeleteTaskStore(p)
        \/ RepoReturn(p)

SpecTasks == InitTasks /\ [][NextTasks]_vars

\* ------------------------------------- concurrent UpdateTask on one task
\* task 1 is in table tasks (and in the mirror when one was loaded); the
\* goroutines only call UpdateTask
InitUpdateTask ==
    /\ InitTasks
    /\ db_tasks # <<>>

NextUpdateTask ==
    \E p \in Procs :
        \/ \E t \in TaskUpdates : UpdateTask(p, t) \/ UpdateTaskFails(p, t)
        \/ UpdateTaskStore(p)
        \/ RepoReturn(p)

SpecUpdateTask == InitUpdateTask /\ [][NextUpdateTask]_vars

\* ====================================== ApiService and the worker Pool
\* The tables and the mirrors, which the steps below leave alone: the users
\* GetNonUpdateUsers returns and the results of GetUserInfo and of
\* UpdateUsersInfo are inputs.
storageVars == <<user_tasks, audit, users, now, proc, repoVars>>

SetUpdater(pc, us, result, err) ==
    updater' = [pc |-> pc, users |-> us, result |-> result, err |-> err]
SetWorker(w, pc, user) == workers' = [workers EXCEPT ![w] = [pc |-> pc, user |-> user]]

\* ApiService.Start: a.wg.Add(1); go a.UpdateUsers(ctx)
Start ==
    /\ updater.pc = "none"
    /\ wg' = wg + 1
    /\ SetUpdater("select", <<>>, 0, "nil")
    /\ UNCHANGED <<collector, workers, cancelled, stopper, storageVars>>

\* ApiService.Stop: a.cancelFunc(), then a.wg.Wait(), which returns when the
\* counter is zero
Stop ==
    /\ updater.pc # "none"
    /\ IF stopper = "idle"
       THEN cancelled' = TRUE /\ stopper' = "Wait"
       ELSE /\ stopper = "Wait"
            /\ wg = 0
            /\ stopper' = "returned"
            /\ UNCHANGED cancelled
    /\ UNCHANGED <<collector, workers, updater, wg, storageVars>>

\* UpdateUsers, case <-ctx.Done(): return (the function has no a.wg.Done())
UpdateUsersDone ==
    /\ updater.pc = "select"
    /\ cancelled
    /\ SetUpdater("returned", <<>>, updater.result, updater.err)
    /\ UNCHANGED <<collector, workers, cancelled, wg, stopper, storageVars>>

\* UpdateUsers, case job := <-a.results, with worker w in AddResults on the
\* unbuffered channel: result = append(result, j); the task of w returns
UpdateUsersResult(w) ==
    /\ updater.pc = "select"
    /\ workers[w].pc = "AddResults"
    /\ SetUpdater("select", <<>>, updater.result + 1, updater.err)
    /\ SetWorker(w, "select", 0)
    /\ UNCHANGED <<collector, cancelled, wg, stopper, storageVars>>

\* UpdateUsers, case <-t.C
UpdateUsersTick ==
    /\ updater.pc = "select"
    /\ SetUpdater("GetNonUpdateUsers", <<>>, updater.result, "nil")
    /\ UNCHANGED <<collector, workers, cancelled, wg, stopper, storageVars>>

\* after CreateUsersTask: if len(result) != 0 { a.doWork(result); result = nil }
AfterCreateUsersTask(result) == IF result # 0 THEN "doWork" ELSE "select"

\* users, err := a.storage.GetNonUpdateUsers() returns n users;
\* a.CreateUsersTask(users) begins
GetNonUpdateUsers(n) ==
    /\ updater.pc = "GetNonUpdateUsers"
    /\ SetUpdater(IF n = 0 THEN AfterCreateUsersTask(updater.result)
                  ELSE "CreateUsersTask",
                  [i \in 1..n |-> i], updater.result, "nil")
    /\ UNCHANGED <<collector, workers, cancelled, wg, stopper, storageVars>>

\* GetNonUpdateUsers returns an error: if err != nil { return }
GetNonUpdateUsersFails ==
    /\ updater.pc = "GetNonUpdateUsers"
    /\ SetUpdater("returned", <<>>, updater.result, "ErrDB")
    /\ UNCHANGED <<collector, workers, cancelled, wg, stopper, storageVars>>

\* CreateUsersTask, a.pool.AddTask(task): p.collector <- task, which waits
\* while the channel is full
AddTask ==
    /\ updater.pc = "CreateUsersTask"
    /\ Len(collector) < QueueCap
    /\ collector' = Append(collector, Head(updater.users))
    /\ SetUpdater(IF Tail(updater.users) = <<>>
                  THEN AfterCreateUsersTask(updater.result) ELSE "CreateUsersTask",
                  Tail(updater.users), updater.result, "nil")
    /\ UNCHANGED <<workers, cancelled, wg, stopper, storageVars>>

\* doWork: a.storage.UpdateUsersInfo(result), its error logged; result = nil
doWork(err) ==
    /\ updater.pc = "doWork"
    /\ SetUpdater("select", <<>>, 0, err)
    /\ UNCHANGED <<collector, workers, cancelled, wg, stopper, storageVars>>

\* Worker.StartBackground, case task := <-wr.taskChan: process(wr.ID, task)
WorkerTake(w) ==
    /\ workers[w].pc = "select"
    /\ collector # <<>>
    /\ collector' = Tail(collector)
    /\ SetWorker(w, "process", Head(collector))
    /\ UNCHANGED <<updater, cancelled, wg, stopper, storageVars>>

\* the task: a.external.GetUserInfo succeeds, a.AddResults(usrinfo) follows
GetUserInfo(w) ==
    /\ workers[w].pc = "process"
    /\ SetWorker(w, "AddResults", workers[w].user)
    /\ UNCHANGED <<collector, updater, cancelled, wg, stopper, storageVars>>

\* the task: a.external.GetUserInfo fails, the task returns the error
GetUserInfoFails(w) ==
    /\ workers[w].pc = "process"
    /\ SetWorker(w, "select", 0)
    /\ UNCHANGED <<collector, updater, cancelled, wg, stopper, storageVars>>

\* app.go: the Pool runs in the background, the service is to be started
InitPipeline ==
    /\ user_tasks = <<>>
    /\ audit = <<>>
    /\ users = <<>>
    /\ now = Start0
    /\ proc = [p \in Procs |-> IdleProc]
    /\ db_users = <<>>
    /\ users_id_seq = 0
    /\ db_tasks = <<>>
    /\ tasks_id_seq = 0
    /\ tasks = <<>>
    /\ umx = Unlocked
    /\ omx = Unlocked
    /\ call = [p \in Procs |-> IdleCall]
    /\ accepted = <<>>
    /\ NoService

\* the steps of worker w
WorkerStep(w) == WorkerTake(w) \/ GetUserInfo(w) \/ GetUserInfoFails(w)

\* the steps of the UpdateUsers goroutine between two selects
UpdateUsersStep ==
    \/ \E n \in 0..MaxBatch : GetNonUpdateUsers(n)
    \/ GetNonUpdateUsersFails
    \/ AddTask
    \/ \E err \in {"nil", "ErrDB"} : doWork(err)

NextPipeline ==
    \/ Start
    \/ Stop
    \/ UpdateUsersDone
    \/ UpdateUsersTick
    \/ \E w \in Workers : UpdateUsersResult(w)
    \/ UpdateUsersStep
    \/ \E w \in Workers : WorkerStep(w)

SpecPipeline == InitPipeline /\ [][NextPipeline]_vars

\* Every goroutine that can run does run, and a select whose case is ready
\* again and again takes it (Go chooses among the ready cases at random; the
\* ticker keeps firing).  Nothing makes the caller of Stop call it: only the
\* wait inside Stop is scheduled.
FairPipeline ==
    /\ WF_vars(Start)
    /\ WF_vars(Stop /\ stopper = "Wait")
    /\ SF_vars(UpdateUsersDone)
    /\ SF_vars(UpdateUsersTick)
    /\ \A w \in Workers : SF_vars(UpdateUsersResult(w))
    /\ WF_vars(UpdateUsersStep)
    /\ \A w \in Workers : WF_vars(WorkerStep(w))

SpecPipelineFair == SpecPipeline /\ FairPipeline

\* ================================================================ properties
Open(i) == user_tasks[i].end_time = NULL

\* the rows of a (user, task, day)
RowsOf(u, k, d) ==
    {i \in DOMAIN user_tasks : /\ user_tasks[i].user_id = u
                               /\ user_tasks[i].task_id = k
                               /\ user_tasks[i].event_date = d}

OpenRowsOf(u, k, d) == {i \in RowsOf(u, k, d) : Open(i)}

\* process p takes this step, and it ends its call
Returns(p) == proc[p].pc # "done" /\ proc'[p].pc = "done"

\* C1: for each (user_id, task_id, event_date) at most one row of user_tasks
\* has end_time NULL, in every reachable state.
C1_AtMostOneOpenRow ==
    \A u \in Users, k \in Tasks, d \in Days : Cardinality(OpenRowsOf(u, k, d)) <= 1

C3_StopWithoutOpenRowFails ==
    [][\A p \in Procs :
         LET open == OpenRowsOf(proc[p].UserID, proc[p].TaskID, proc[p].EventDate)
             open2 == {i \in DOMAIN user_tasks' :
                          /\ user_tasks'[i].user_id = proc[p].UserID
                          /\ user_tasks'[i].task_id = proc[p].TaskID
                          /\ user_tasks'[i].event_date = proc[p].EventDate
                          /\ user_tasks'[i].end_time = NULL}
         IN /\ (proc[p].pc = "stop_check" /\ proc'[p] # proc[p] /\ open = {})
                => /\ proc'[p].pc = "done"
                   /\ proc'[p].err \in {"ErrNotTracking", "ErrDB"}
                   /\ user_tasks' = user_tasks
            /\ (proc[p].op = "stop" /\ Returns(p) /\ proc'[p].err = "nil")
                => open2 = {}]_vars

\* C4: a Start that returns success has added exactly one row, open and of its
\* (user, task, day), and changed no other row; a Start that returns an error
\* has left the table as it was.
C4_StartAddsOneRowOrNone ==
    [][\A p \in Procs :
         (proc[p].op = "start" /\ Returns(p))
         => IF proc'[p].err = "nil"
            THEN \E s \in 0..(TicksPerDay - 1) :
                    user_tasks' = Append(user_tasks,
                        Row(proc[p].UserID, proc[p].TaskID, proc[p].EventDate, s, NULL))
            ELSE user_tasks' = user_tasks]_vars

\* C5: no row is ever removed, and an end_time that has been set is never
\* changed or cleared.
C5_EndTimeSetOnce ==
    [][/\ Len(user_tasks') >= Len(user_tasks)
       /\ \A i \in DOMAIN user_tasks :
            user_tasks[i].end_time # NULL
            => user_tasks'[i].end_time = user_tasks[i].end_time]_vars

\* C6: a Stop that returns success has set end_time on exactly one row, an
\* open row of its (user, task, day), and left every other row and field as
\* it was.
C6_StopClosesOneOpenRow ==
    [][\A p \in Procs :
         (proc[p].op = "stop" /\ Returns(p) /\ proc'[p].err = "nil")
         => \E i \in OpenRowsOf(proc[p].UserID, proc[p].TaskID, proc[p].EventDate) :
               \E e \in 0..(TicksPerDay - 1) :
                  user_tasks' = [user_tasks EXCEPT ![i].end_time = e]]_vars

\* C7: a Stop never answers NotTracking while the table holds an open row of
\* its (user, task) whose Start was issued on the same local calendar day as
\* the Stop.
C7_StopSameLocalDayFinds ==
    [][\A p \in Procs :
         (proc[p].pc = "stop_check" /\ Returns(p) /\ proc'[p].err = "ErrNotTracking")
         => ~ \E i \in DOMAIN user_tasks :
                /\ user_tasks[i].user_id = proc[p].UserID
                /\ user_tasks[i].task_id = proc[p].TaskID
                /\ Open(i)
                /\ audit[i] = proc[p].day]_vars

\* C8: the event_date a Start or a Stop works with is the calendar day, in the
\* user's timezone, of the instant at which the handler computed it.
C8_EventDateIsLocalDay ==
    \A p \in Procs :
        proc[p].pc \in {"start_check", "start_commit",
                        "stop_check", "stop_update", "stop_commit"}
        => proc[p].EventDate = proc[p].day

\* C9: no step writes the end_time of a row on behalf of a call issued on a
\* local calendar day later than the row's event_date.
C9_PastRowStaysOpen ==
    [][\A p \in Procs : \A i \in DOMAIN user_tasks :
         (/\ proc'[p] # proc[p]
          /\ proc[p].pc # "idle"
          /\ proc[p].day > user_tasks[i].event_date)
         => user_tasks'[i] = user_tasks[i]]_vars

\* the duration the fallback rule gives an open row: up to the user's
\* default end of day when that is configured, otherwise up to the last
\* instant of the day
C10_Fallback(i, u) ==
    IF users[u].DefaultEndTime # ZeroTime
    THEN DefaultEndTod - user_tasks[i].start_time
    ELSE (TicksPerDay - 1) - user_tasks[i].start_time

RECURSIVE C10_Sum(_, _)
C10_Sum(S, u) ==
    IF S = {} THEN 0
    ELSE LET i == CHOOSE x \in S : TRUE
         IN C10_Fallback(i, u) + C10_Sum(S \ {i}, u)

\* C10: a summary the database answers counts, for a task whose entries in the
\* range are all open, the sum of their fallback durations.
C10_OpenEntryFallback ==
    [][\A p \in Procs :
         (proc[p].pc = "idle" /\ proc'[p].op = "summary" /\ proc'[p].err # "ErrDB")
         => LET u == proc'[p].UserID
                S == {i \in DOMAIN user_tasks :
                         /\ user_tasks[i].user_id = u
                         /\ proc'[p].from <= user_tasks[i].event_date
                         /\ user_tasks[i].event_date <= proc'[p].to}
            IN \A k \in Tasks :
                 LET Sk == {i \in S : user_tasks[i].task_id = k}
                 IN (Sk # {} /\ \A i \in Sk : Open(i))
                    => /\ proc'[p].err = "nil"
                       /\ k \in DOMAIN proc'[p].summary
                       /\ proc'[p].summary[k] = C10_Sum(Sk, u)]_vars

\* the rows a summary of user u over [s, e] is about
C11_Rows(u, s, e) ==
    {i \in DOMAIN user_tasks : /\ user_tasks[i].user_id = u
                               /\ s <= user_tasks[i].event_date
                               /\ user_tasks[i].event_date <= e}

RECURSIVE C11_Sum(_)
C11_Sum(S) ==
    IF S = {} THEN 0
    ELSE LET i == CHOOSE x \in S : TRUE
         IN (user_tasks[i].end_time - user_tasks[i].start_time) + C11_Sum(S \ {i})

\* C11: a summary the database answers succeeds and holds exactly one
\* TaskSummary for each task with an entry of the user in the range, and none
\* for any other task; the total of a task whose entries there are all closed
\* is the sum of their end_time - start_time.
C11_OneSummaryPerTask ==
    [][\A p \in Procs :
         (proc[p].pc = "idle" /\ proc'[p].op = "summary" /\ proc'[p].err # "ErrDB")
         => LET S == C11_Rows(proc'[p].UserID, proc'[p].from, proc'[p].to)
                T == {user_tasks[i].task_id : i \in S}
                ts == proc'[p].taskSummaries
            IN /\ proc'[p].err = "nil"
               /\ Len(ts) = Cardinality(T)
               /\ {ts[i].TaskID : i \in DOMAIN ts} = T
               /\ \A i \in DOMAIN ts :
                    LET Sk == {j \in S : user_tasks[j].task_id = ts[i].TaskID}
                    IN (\A j \in Sk : ~Open(j))
                       => ts[i].TotalTime = DurationString(C11_Sum(Sk))]_vars

\* C12: in the list a summary returns, the accumulated duration of each
\* element is greater than or equal to that of the element after it.
C12_SortedByDuration ==
    \A p \in Procs :
        (proc[p].pc = "done" /\ proc[p].op = "summary" /\ proc[p].err = "nil")
        => \A i \in 1..(Len(proc[p].taskSummaries) - 1) :
              proc[p].summary[proc[p].taskSummaries[i].TaskID]
                >= proc[p].summary[proc[p].taskSummaries[i + 1].TaskID]

\* C17: a Start or a Stop that has returned nil has committed its transaction.
C17_NilOnlyIfCommitted ==
    \A p \in Procs :
        (proc[p].pc = "done" /\ proc[p].op \in {"start", "stop"} /\ proc[p].err = "nil")
        => proc[p].tx = "committed"

\* the operations of the Repository that change a table
MutatingOps ==
    {"InsertUser", "UpdateUser", "UpdateUserKeyed", "DeleteUser", "UpdateUsersInfo",
     "InsertTask", "UpdateTask", "DeleteTask"}

\* process p returns from its call with this step
CallReturns(p) == call[p].pc \notin {"done", "panic"} /\ call'[p].pc = "done"

\* C13: when the gateway call of a mutating Repository operation fails, the
\* operation returns that error, has not written the mirror, and the step that
\* returns leaves the users and tasks maps as they were.
C13_GatewayErrorLeavesMirror ==
    [][\A p \in Procs :
         (CallReturns(p) /\ call'[p].op \in MutatingOps /\ call'[p].err = "ErrDB")
           => (~call'[p].wrote /\ users' = users /\ tasks' = tasks)]_vars

\* C14: no state, a call in flight included, has the mirror written by a
\* mutating operation whose durable mutation has not succeeded.
C14_MirrorAfterDurable ==
    \A p \in Procs :
        (call[p].op \in MutatingOps /\ call[p].wrote) => call[p].durable

\* C15: every surname and timezone the mirror holds for a user is one the
\* durable store has accepted for that user.
C15_MirrorNeverAhead ==
    \A id \in Keys(users) :
        /\ id \in DOMAIN accepted
        /\ <<"Surname", users[id].Surname>> \in accepted[id]
        /\ <<"Timezone", users[id].Timezone>> \in accepted[id]

\* the row was never checked or was checked at least an interval ago
C16_StillStale(row) ==
    row.last_checked_at = NULL \/ row.last_checked_at + UpdateInterval <= now

\* C16: a step changes a row of Users only as the gateway call of an
\* UpdateUsersInfo whose batch names the row's user, and only if the row is
\* still stale; a row that is fresh keeps all its values, and no row is added
\* or removed.
C16_OnlyStaleBatchRows ==
    [][/\ DOMAIN db_users' = DOMAIN db_users
       /\ \A id \in DOMAIN db_users :
            db_users'[id] # db_users[id] =>
              /\ C16_StillStale(db_users[id])
              /\ \E p \in Procs :
                    /\ call[p].pc = "idle"
                    /\ call'[p].pc = "UpdateUsersInfo_store"
                    /\ <<db_users[id].passportSerie, db_users[id].passportNumber>>
                          \in call'[p].arg]_vars

\* an UpdateUsersInfo has applied a batch that names a user whose row was
\* fresh, and the row has kept its surname
C16_Witness ==
    \E p \in Procs, id \in DOMAIN db_users :
        /\ call[p].pc = "UpdateUsersInfo_store"
        /\ <<db_users[id].passportSerie, db_users[id].passportNumber>> \in call[p].arg
        /\ db_users[id].last_checked_at = Start0
        /\ db_users[id].surname = "a"
        /\ \E other \in DOMAIN db_users : db_users[other].surname = "c"

\* C18: no step changes the users map while a goroutine holds the users mutex
\* in read mode or another goroutine holds it in write mode, and likewise for
\* the tasks map and the tasks mutex: every write has the write lock.
C18_WritesHoldWriteLock ==
    [][\A p \in Procs :
         call'[p] # call[p] =>
           /\ users' # users => (umx.r = {} /\ umx.w \in {0, p})
           /\ tasks' # tasks => (omx.r = {} /\ omx.w \in {0, p})]_vars

C20_BackfillOnMiss ==
    [][\A p \in Procs :
         /\ (call[p].pc = "GetUser_store" /\ call'[p] # call[p]) =>
               /\ call'[p].pc = "done"
               /\ call'[p].err = "nil"
               /\ call'[p].out = LoadUsers(db_users)[call[p].id]
               /\ GetUserByID(users', call[p].id) =
                     [user |-> call'[p].out, err |-> "nil"]
         /\ (call[p].pc = "GetUser_keeper" /\ call'[p] # call[p]
               /\ MatchRow(call[p].arg) = {}) =>
               /\ call'[p].pc = "done"
               /\ call'[p].err # "nil"
               /\ users' = users]_vars

\* C22: an InsertUser of a passport that the mirror or the table Users already
\* holds returns ErrConflict (the gateway itself failing aside) and leaves the
\* table and the mirror as they were.
C22_DuplicateInsertConflicts ==
    [][\A p \in Procs, u \in NewUsers :
         LET k == <<u.PassportSerie, u.PassportNumber>>
         IN ((Match(users, k) # {} \/ MatchRow(k) # {}) /\ InsertUser(p, u))
              => /\ call'[p].pc = "done"
                 /\ call'[p].err = "ErrConflict"
                 /\ db_users' = db_users
                 /\ users' = users]_vars

\* C23: UpdateUser, DeleteUser, UpdateTask and DeleteTask called with an id
\* that the mirror does not hold change neither the table nor the mirror and
\* return no error but ErrNotFound.
C23_AbsentIdIsNotFound ==
    [][\A p \in Procs :
         /\ \A u \in UpdateBodies :
              (u.UUID \notin Keys(users) /\ (UpdateUser(p, u) \/ UpdateUserFails(p, u)))
                => /\ call'[p].err = "ErrNotFound"
                   /\ db_users' = db_users /\ users' = users
         /\ \A id \in 1..MaxUserID :
              (id \notin Keys(users) /\ (DeleteUser(p, id) \/ DeleteUserFails(p, id)))
                => /\ call'[p].err = "ErrNotFound"
                   /\ db_users' = db_users /\ users' = users
         /\ \A t \in TaskBodies :
              (t.ID \notin Keys(tasks) /\ (UpdateTask(p, t) \/ UpdateTaskFails(p, t)))
                => /\ call'[p].err \in {"none", "ErrNotFound"}
                   /\ db_tasks' = db_tasks /\ tasks' = tasks
         /\ \A id \in 1..MaxTaskID :
              (id \notin Keys(tasks) /\ (DeleteTask(p, id) \/ DeleteTaskFails(p, id)))
                => /\ call'[p].err = "ErrNotFound"
                   /\ db_tasks' = db_tasks /\ tasks' = tasks
         /\ (call[p].pc = "UpdateTask_store" /\ call[p].arg.ID \notin Keys(tasks)
               /\ UpdateTaskStore(p))
                => call'[p].err = "ErrNotFound" /\ tasks' = tasks]_vars

\* C30: every entry of the users mirror is stored under its own id: the key is
\* the entry's UUID, and the id of the row of Users with the entry's passport
\* while there is such a row.
C30_EntryUnderItsOwnId ==
    \A k \in Keys(users) :
        /\ users[k].UUID = k
        /\ MatchRow(<<users[k].PassportSerie, users[k].PassportNumber>>) \subseteq {k}

\* the open rows of user u and task k
C27_OpenRows(u, k) ==
    {i \in DOMAIN user_tasks : /\ user_tasks[i].user_id = u
                               /\ user_tasks[i].task_id = k
                               /\ user_tasks[i].end_time = NULL}

\* C27: a Start issued on a local calendar day later than the day of every
\* open row of its user and task passes the check and goes on to insert its
\* row, and a Stop writes the end_time only of a row that was started on the
\* local calendar day the Stop was issued on.
C27_DaysAreIndependent ==
    [][\A p \in Procs :
         /\ (/\ StartCheck(p)
             /\ C27_OpenRows(proc[p].UserID, proc[p].TaskID) # {}
             /\ \A i \in C27_OpenRows(proc[p].UserID, proc[p].TaskID) :
                    audit[i] < proc[p].day)
            => proc'[p].pc = "start_commit"
         /\ \A i \in DOMAIN user_tasks :
              (StopCommit(p) /\ user_tasks'[i] # user_tasks[i])
                => audit[i] = proc[p].day]_vars

\* the user satisfies every predicate the filter supplies: the passport series
\* and number are equal, the string fields contain the given text
C21_Satisfies(user, filter) ==
    /\ \A v \in filter.PassportSerie : user.PassportSerie = v
    /\ \A v \in filter.PassportNumber : user.PassportNumber = v
    /\ \A v \in filter.Surname :
          \E a, b \in 0..Len(user.Surname) :
              a <= b /\ v = [i \in 1..(b - a) |-> user.Surname[a + i]]
    /\ \A v \in filter.Timezone :
          \E a, b \in 0..Len(user.Timezone) :
              a <= b /\ v = [i \in 1..(b - a) |-> user.Timezone[a + i]]

\* how many times user u is on the pages
C21_Times(pages, u) ==
    Cardinality({x \in (DOMAIN pages) \X (1..MaxListed) :
                    x[2] \in DOMAIN pages[x[1]] /\ pages[x[1]][x[2]] = u})

\* C21: when a client has asked for the pages at offsets 0, limit, 2*limit, ...
\* (limit >= 1) of one filter up to a page that is empty, every user of the
\* mirror that matches the filter is on the pages exactly once.
C21_PagesCoverOnce ==
    \A p \in Procs :
        (/\ call[p].pc = "done"
         /\ call[p].op = "GetUsers"
         /\ call[p].arg.pagination.Limit >= 1
         /\ call[p].arg.pagination.Offset
               = (Len(call[p].out) - 1) * call[p].arg.pagination.Limit
         /\ call[p].out[Len(call[p].out)] = <<>>)
        => \A id \in Keys(users) :
              C21_Times(call[p].out, users[id])
                = IF C21_Satisfies(users[id], call[p].arg.filter) THEN 1 ELSE 0

\* the smaller and the larger of two numbers
C28_Min(a, b) == IF a < b THEN a ELSE b
C28_Max(a, b) == IF a > b THEN a ELSE b

\* C28: a call GetUsers(filter, {offset, limit}) with offset >= 0 and
\* limit >= 0 returns, with a nil error, only users that satisfy the filter,
\* exactly min(limit, max(0, n - offset)) of them, n being the number of
\* users of the mirror that satisfy it, and leaves the mirror as it was.
C28_FilterAndWindow ==
    [][\A p \in Procs :
         (call[p].pc = "idle" /\ call'[p].op = "GetUsers")
           => LET filter == call'[p].arg.filter
                  pagination == call'[p].arg.pagination
                  n == Cardinality({id \in Keys(users) :
                                       C21_Satisfies(users[id], filter)})
                  page == call'[p].out[1]
              IN /\ call'[p].pc = "done"
                 /\ call'[p].err = "nil"
                 /\ \A i \in DOMAIN page : C21_Satisfies(page[i], filter)
                 /\ Len(page) = C28_Min(pagination.Limit,
                                        C28_Max(0, n - pagination.Offset))
                 /\ users' = users]_vars

\* ------------------------------------------------------------ BaseController
\* the request the client's last response answers, and the response
Answered(op) == call[Client].op = op /\ call[Client].pc \in {"done", "panic"}
WellFormedUser(body) ==
    /\ body.json
    /\ parsePassportData(body.PassportNumber).err = "nil"
GetUserFailed(out) == Len(out.getUser) = 1 /\ out.getUser[1] \notin {"nil", "panic"}

\* C24: at the controller boundary each repository error kind yields its
\* status class: not found gives 404; a duplicate user on AddUser or Register
\* and a task start that finds the task already tracked give 409; an invalid
\* timezone or malformed input gives 400; any other failure of the store
\* gives 500.
C24_StatusByErrorKind ==
    LET c == call[Client]
        duplicate == \/ c.out.insertUser \in {<<"ErrNoRows">>, <<"ErrConflict">>}
                     \/ c.err = "login is already taken"
    IN (c.pc = "done" /\ c.out.next) =>
          /\ c.err \in {"ErrNotFound", "user not found"} /\ c.op # "Login"
                => c.out.status = 404
          /\ c.op \in {"AddUser", "Register"} /\ duplicate => c.out.status = 409
          /\ c.err = "ErrAlreadyTracking" => c.out.status = 409
          /\ c.err \in {"decode", "empty", "passport", "zero", "id",
                        "invalid user timezone"} => c.out.status = 400
          /\ c.err = "ErrDB" /\ c.op \notin {"Login", "Register"} => c.out.status = 500
          /\ c.err = "ErrDB" /\ c.op = "Register" /\ c.out.insertUser # <<>>
                => c.out.status = 500

\* C25, as the claim has it, on a server whose default end time is well
\* configured: a well-formed Register whose natural key GetUser does not
\* resolve calls InsertUser exactly once and answers 200 with a token; a body
\* that is not JSON answers 400 without InsertUser; a key that GetUser
\* resolves answers 409 without InsertUser.
C25_RegisterAsClaimed ==
    LET c == call[Client]
        body == c.arg.body
    IN Answered("Register") =>
          /\ ~body.json => c.out.status = 400 /\ c.out.insertUser = <<>>
          /\ WellFormedUser(body) /\ body.Password # <<>> /\ c.out.getUser = <<"nil">>
                => c.out.status = 409 /\ c.out.insertUser = <<>>
          /\ WellFormedUser(body) /\ body.Password # <<>> /\ GetUserFailed(c.out)
                /\ parseDefaultEndTime(c.arg.defaultEndTime) = "nil"
                => /\ Len(c.out.insertUser) = 1
                   /\ c.out.status = 200
                   /\ c.out.token # NoToken

\* C25, amended: the well-formed Register whose key GetUser does not resolve
\* calls InsertUser exactly once when the configured default end time parses
\* (else it answers 500 without the call), and answers 200 with the token of
\* the passport exactly when that call returns no error, 409 or 500 with no
\* token when it returns one; the other two cases are as claimed.
C25_Register ==
    LET c == call[Client]
        body == c.arg.body
    IN Answered("Register") =>
          /\ ~body.json => c.out.status = 400 /\ c.out.insertUser = <<>>
          /\ WellFormedUser(body) /\ body.Password # <<>> /\ c.out.getUser = <<"nil">>
                => c.out.status = 409 /\ c.out.insertUser = <<>>
          /\ WellFormedUser(body) /\ body.Password # <<>> /\ GetUserFailed(c.out)
                => IF parseDefaultEndTime(c.arg.defaultEndTime) # "nil"
                   THEN c.out.status = 500 /\ c.out.insertUser = <<>>
                        /\ c.out.token = NoToken
                   ELSE /\ Len(c.out.insertUser) = 1
                        /\ c.out.insertUser = <<"nil">>
                              <=> /\ c.out.status = 200
                                  /\ c.out.token =
                                        CreateJWTTokenForUser(body.PassportNumber)
                        /\ c.out.insertUser[1] \notin {"nil", "panic"}
                              => c.out.status \in {409, 500} /\ c.out.token = NoToken

\* a new passport has been registered: GetUser did not find it, InsertUser
\* returned nil, the answer is 200 with a token
C25_Witness ==
    /\ Answered("Register")
    /\ GetUserFailed(call[Client].out)
    /\ call[Client].out.insertUser = <<"nil">>
    /\ call[Client].out.status = 200
    /\ call[Client].out.token # NoToken

\* C26: Login with a well-formed request answers 200 and issues a token if
\* and only if GetUser resolves the natural key and the hash of the user it
\* returns equals GetHash(passport, password); for an unknown user or a hash
\* mismatch it answers 401 and issues no token.
C26_LoginIffHashMatches ==
    [][LET c == call'[Client]
           body == c.arg.body
           key == parsePassportData(body.PassportNumber)
           resolved == {g \in StoreGetUser(Store, <<key.passportSerie,
                                                   key.passportNumber>>) :
                           g.err = "nil"}
           matches(g) == g.user.Hash = GetHash(body.PassportNumber, body.Password)
       IN (call[Client].pc = "idle" /\ c.op = "Login" /\ WellFormedUser(body)) =>
             /\ c.out.status = 200 \/ c.out.token # NoToken
                   => /\ c.out.status = 200
                      /\ c.out.token = CreateJWTTokenForUser(body.PassportNumber)
                      /\ c.out.getUser = <<"nil">>
                      /\ \E g \in resolved : matches(g)
             /\ GetUserFailed(c.out) => c.out.status = 401 /\ c.out.token = NoToken
             /\ c.out.getUser = <<"nil">> /\ (\A g \in resolved : ~matches(g))
                   => c.out.status = 401 /\ c.out.token = NoToken
             /\ c.out.getUser = <<"nil">> /\ (\A g \in resolved : matches(g))
                   => c.out.status = 200 /\ c.out.token # NoToken
      ]_vars

\* a registered user has logged in with its password
C26_Witness ==
    /\ Answered("Login")
    /\ call[Client].out.status = 200
    /\ call[Client].out.token = CreateJWTTokenForUser(call[Client].arg.body.PassportNumber)
    /\ call[Client].out.getUser = <<"nil">>

\* C29: the middleware passes a request on to a protected handler only if a
\* token of the cookie or of the header decodes to a natural key that GetUser
\* resolves; in every other case the response is 401 and the handler is not
\* invoked.
C29_TokenResolves(token) ==
    LET d == DecodeJWTToUser(token)
        key == parsePassportData(d.userID)
    IN /\ d.err = "nil"
       /\ key.err = "nil"
       /\ \E g \in StoreGetUser(Store, <<key.passportSerie, key.passportNumber>>) :
             g.err = "nil"

C29_OnlyAuthorizedPass ==
    [][LET c == call'[Client]
           authorized == C29_TokenResolves(c.arg.cookie) \/ C29_TokenResolves(c.arg.header)
       IN (call[Client].pc = "idle" /\ c.pc # "idle"
             /\ c.op \in {"AddUser", "UpdateUser", "DeleteUser", "StartTaskTracking"})
          => /\ c.out.next => authorized
             /\ ~authorized => c.out.status = 401 /\ ~c.out.next
      ]_vars

\* C31: UpdateUsersInfo never changes the set of keys of the users mirror:
\* for any batch it only rewrites the surname (name, address) of entries that
\* are present, and neither adds an entry (for example under key 0) nor
\* removes one.
C31_InfoKeepsKeys ==
    [][\A p \in Procs :
          (call[p].pc = "UpdateUsersInfo_store" /\ call'[p].pc # call[p].pc) =>
             /\ Keys(users') = Keys(users)
             /\ \A id \in Keys(users) :
                   \E s \in {users[id].Surname, "c"} :
                      users'[id] = [users[id] EXCEPT !.Surname = s]
      ]_vars

\* C32: UpdateUser applies only the fields the patch provides: a field that
\* is zero in the patch keeps its value in the row and in the mirrored user,
\* so after a successful UpdateUser the mirrored user equals the durable row.
C32_PatchKeepsOtherFields ==
    [][\A p \in Procs :
          (call[p].pc = "UpdateUser_store" /\ call'[p].pc = "done"
              /\ call'[p].err = "nil") =>
             LET u == call[p].arg
                 id == u.UUID
             IN /\ u.Surname = "" => users'[id].Surname = users[id].Surname
                /\ u.Timezone = "" => users'[id].Timezone = users[id].Timezone
                /\ u.PassportSerie = 0
                      => users'[id].PassportSerie = users[id].PassportSerie
                /\ id \in DOMAIN db_users' => users'[id] = LoadUsers(db_users')[id]
      ]_vars

\* every goroutine is outside the Repository
Quiescent == \A p \in Procs : call[p].pc \in {"idle", "done", "panic"}

\* C33: once every concurrent UpdateTask on a task id has completed, the
\* mirrored task's name (and description) equals that of the durable row: the
\* update that reached the store last is the one the mirror holds.
C33_LastUpdateInMirror ==
    Quiescent =>
       \A id \in Keys(tasks) \cap DOMAIN db_tasks : tasks[id].Name = db_tasks[id].name

\* C34: in every state of the tasks mirror each entry is stored under the id
\* the durable store generated: tasks[k].ID = k, whatever ID the caller
\* passed to InsertTask.
C34_TaskUnderItsOwnId == \A k \in Keys(tasks) : tasks[k].ID = k

\* an InsertTask whose caller passed another ID than the one generated has
\* stored its task
C34_Witness ==
    \E p \in Procs :
        /\ call[p].op = "InsertTask"
        /\ call[p].pc = "done"
        /\ call[p].err = "nil"
        /\ \E k \in Keys(tasks) : tasks[k].Name = "n" /\ k \notin {t.ID : t \in TaskInserts}

\* table user_tasks has rows of user id / of task id
HasEntriesOfUser(id) == \E i \in DOMAIN user_tasks : user_tasks[i].user_id = id
HasEntriesOfTask(id) == \E i \in DOMAIN user_tasks : user_tasks[i].task_id = id

\* every row of user_tasks references an existing row of Users and an existing
\* row of tasks
RowsReferenceExisting ==
    \A i \in DOMAIN user_tasks :
        /\ user_tasks[i].user_id \in DOMAIN db_users
        /\ user_tasks[i].task_id \in DOMAIN db_tasks

\* a DeleteUser / DeleteTask of a record that still has time entries fails,
\* and the three tables and the mirrors are as they were (the users mirror as
\* the authorization middleware of the request left it)
DeleteOfReferencedFails ==
    \A p \in Procs :
          (call[p].pc = "idle" /\ call'[p].pc # "idle"
              /\ \/ /\ call'[p].op = "DeleteUser"
                    /\ Atoi(call'[p].arg.id).err = "nil"
                    /\ HasEntriesOfUser(Atoi(call'[p].arg.id).n)
                 \/ /\ call'[p].op = "DeleteTask"
                    /\ call'[p].arg.body.json
                    /\ Atoi(call'[p].arg.body.ID).err = "nil"
                    /\ HasEntriesOfTask(Atoi(call'[p].arg.body.ID).n)) =>
             /\ call'[p].out.status # 200
             /\ db_users' = db_users /\ db_tasks' = db_tasks /\ user_tasks' = user_tasks
             /\ tasks' = tasks
             /\ \E a \in Authorize(Store, call'[p].arg.cookie, call'[p].arg.header) :
                   users' = a.st.users

\* C35: referential integrity holds in every durable state, every row of
\* user_tasks referencing an existing row of Users and of tasks; a DeleteUser
\* / DeleteTask of a record that still has time entries fails and leaves the
\* tables and the mirror unchanged.
C35_Referential == []RowsReferenceExisting /\ [][DeleteOfReferencedFails]_vars

\* an authorized DeleteUser of a user with a time entry was answered 500
C35_Witness ==
    \E p \in Procs :
        /\ call[p].op = "DeleteUser"
        /\ call[p].pc = "done"
        /\ call[p].out.next
        /\ call[p].out.status = 500
        /\ Atoi(call[p].arg.id).err = "nil"
        /\ HasEntriesOfUser(Atoi(call[p].arg.id).n)
        /\ Atoi(call[p].arg.id).n \in Keys(users)

\* C36: the enrichment pipeline never deadlocks: the UpdateUsers loop is never
\* blocked in pool.AddTask on a full task queue while every worker is blocked
\* sending its result on the unbuffered results channel.
C36_NoDeadlock ==
    ~ /\ updater.pc = "CreateUsersTask"
      /\ Len(collector) = QueueCap
      /\ \A w \in Workers : workers[w].pc = "AddResults"

\* C37: ApiService.Stop terminates: after Start, a call of Stop cancels the
\* UpdateUsers goroutine and eventually returns.
C37_StopReturns == (stopper = "Wait") ~> (stopper = "returned")

\* C38: until the context is cancelled the periodic enrichment keeps running:
\* after a tick, also one on which GetNonUpdateUsers or UpdateUsersInfo
\* returned an error, the loop is back in its select and a later tick is
\* processed, and a result a worker sends is received.
C38_KeepsRunning ==
    /\ (updater.pc = "GetNonUpdateUsers") ~> (cancelled \/ updater.pc = "select")
    /\ (updater.pc = "select") ~> (cancelled \/ updater.pc = "GetNonUpdateUsers")
    /\ \A w \in Workers :
          (workers[w].pc = "AddResults") ~> (cancelled \/ workers[w].pc = "select")
====
